---- MODULE Spec2Model ----
(***************************************************************************)
(* Model of the central-moment accumulator of cmomy                        *)
(* (src/cmomy/abstract_central.py, src/cmomy/utils.py).                    *)
(*                                                                         *)
(* Numbers.  The program computes in double precision and its tests        *)
(* compare within a tolerance.  The model computes in exact rational       *)
(* arithmetic: a number is a pair <<n, d>> in lowest terms with d > 0, and *)
(* the result of a division by zero is the single value NaN == <<0, 0>>,   *)
(* which every later operation propagates.  "Equal within tolerance"       *)
(* becomes equality of rationals.                                          *)
(*                                                                         *)
(* Arrays.  A numpy array is a record [shape, flat]: its shape and its     *)
(* elements in C (row-major) order.  A missing argument (None) is the      *)
(* value None.                                                             *)
(***************************************************************************)
EXTENDS Integers, Sequences, FiniteSets, TLC

\* ------------------------------------------------------------------------
\* Rational numbers
\* ------------------------------------------------------------------------
NaN == <<0, 0>>

Abs(n) == IF n < 0 THEN -n ELSE n

RECURSIVE GCD(_, _)
GCD(a, b) == IF b = 0 THEN a ELSE GCD(b, a % b)

IsNaN(q) == q[2] = 0

Frac(n, d) ==
    IF d = 0 THEN NaN
    ELSE LET g == GCD(Abs(n), Abs(d))
             s == IF d < 0 THEN -1 ELSE 1
         IN  <<(s * n) \div g, (s * d) \div g>>

R(n) == <<n, 1>>

\* sums and products cancel common factors before they multiply, so that
\* no intermediate value is larger than the result needs
RAdd(p, q) == IF IsNaN(p) \/ IsNaN(q) THEN NaN
              ELSE LET g == GCD(p[2], q[2])
                   IN  Frac(p[1] * (q[2] \div g) + q[1] * (p[2] \div g),
                            (p[2] \div g) * q[2])
RNeg(p)    == IF IsNaN(p) THEN NaN ELSE <<-p[1], p[2]>>
RSub(p, q) == RAdd(p, RNeg(q))
RMul(p, q) == IF IsNaN(p) \/ IsNaN(q) THEN NaN
              ELSE LET g1 == GCD(Abs(p[1]), q[2])
                       g2 == GCD(Abs(q[1]), p[2])
                   IN  Frac((p[1] \div g1) * (q[1] \div g2),
                            (p[2] \div g2) * (q[2] \div g1))
RInv(q)    == IF IsNaN(q) \/ q[1] = 0 THEN NaN
              ELSE IF q[1] < 0 THEN <<-q[2], -q[1]>> ELSE <<q[2], q[1]>>
RDiv(p, q) == RMul(p, RInv(q))

RECURSIVE RPow(_, _)
RPow(p, k) == IF k = 0 THEN R(1) ELSE RMul(p, RPow(p, k - 1))

\* p >= q; a comparison with NaN is false, as in numpy
RGeq(p, q) == /\ ~IsNaN(p)
              /\ ~IsNaN(q)
              /\ p[1] * q[2] >= q[1] * p[2]

RECURSIVE RSum(_)
RSum(s) == IF s = <<>> THEN R(0) ELSE RAdd(s[1], RSum(Tail(s)))

\* ------------------------------------------------------------------------
\* numpy arrays: [shape |-> <<d1, ..., dn>>, flat |-> elements in C order]
\* Indices and axes are 0-based, as in the program.
\* ------------------------------------------------------------------------
Arr(shape, flat) == [shape |-> shape, flat |-> flat]

\* an exception raised in place of a value
Raised == Arr(<<-1>>, <<>>)
IsRaised(x) == x.shape = <<-1>>

\* the Python value None passed for an array argument
None == Arr(<<-2>>, <<>>)
IsNone(x) == x.shape = <<-2>>

Scalar(q) == Arr(<<>>, <<q>>)

RECURSIVE Prod(_)
Prod(s) == IF s = <<>> THEN 1 ELSE s[1] * Prod(Tail(s))

\* s[:k] and s[k:] of Python, 0 <= k <= Len(s)
Take(s, k) == SubSeq(s, 1, k)
Drop(s, k) == SubSeq(s, k + 1, Len(s))

\* multi-index of flat position k (0-based) in an array of this shape
RECURSIVE Unravel(_, _)
Unravel(k, shape) ==
    IF shape = <<>> THEN <<>>
    ELSE LET stride == Prod(Tail(shape))
         IN  <<(k \div stride) % shape[1]>> \o Unravel(k % stride, Tail(shape))

\* flat position (0-based) of a multi-index
RECURSIVE Ravel(_, _)
Ravel(idx, shape) ==
    IF shape = <<>> THEN 0
    ELSE idx[1] * Prod(Tail(shape)) + Ravel(Tail(idx), Tail(shape))

\* numpy.core.numeric.normalize_axis_index: -1 stands for AxisError
AxisInRange(axis, ndim) == -ndim <= axis /\ axis < ndim
normalize_axis_index(axis, ndim) ==
    IF AxisInRange(axis, ndim) THEN (axis + ndim) % ndim ELSE -1

\* np.moveaxis(x, axis, 0), axis already normalized
moveaxis_to_first(x, axis) ==
    LET n     == Len(x.shape)
        nshp  == <<x.shape[axis + 1]>> \o Take(x.shape, axis) \o Drop(x.shape, axis + 1)
        old(k) == LET ni == Unravel(k, nshp)
                      r  == Tail(ni)
                  IN  Take(r, axis) \o <<ni[1]>> \o Drop(r, axis)
    IN  Arr(nshp, [k \in 1..Prod(nshp) |-> x.flat[Ravel(old(k - 1), x.shape) + 1]])

\* x.reshape(shape): same elements in C order
reshape(x, shape) ==
    IF Prod(shape) = Prod(x.shape) THEN Arr(shape, x.flat) ELSE Raised

\* np.broadcast_to(x, shape): trailing dimensions are aligned, a dimension
\* of size 1 is repeated, anything else raises ValueError
CanBroadcast(xs, shape) ==
    /\ Len(xs) <= Len(shape)
    /\ \A j \in 1..Len(xs) :
          xs[j] = 1 \/ xs[j] = shape[Len(shape) - Len(xs) + j]

broadcast_to(x, shape) ==
    IF ~CanBroadcast(x.shape, shape) THEN Raised
    ELSE LET off == Len(shape) - Len(x.shape)
             src(k) == LET ti == Unravel(k, shape)
                       IN  [j \in 1..Len(x.shape) |->
                               IF x.shape[j] = 1 THEN 0 ELSE ti[off + j]]
         IN  Arr(shape, [k \in 1..Prod(shape) |-> x.flat[Ravel(src(k - 1), x.shape) + 1]])

\* x.take(i, axis) for one index i: the i-th record along axis
take(x, i, axis) ==
    LET rshp == Take(x.shape, axis) \o Drop(x.shape, axis + 1)
        old(k) == LET ri == Unravel(k, rshp)
                  IN  Take(ri, axis) \o <<i>> \o Drop(ri, axis)
    IN  Arr(rshp, [k \in 1..Prod(rshp) |-> x.flat[Ravel(old(k - 1), x.shape) + 1]])

\* ------------------------------------------------------------------------
\* src/cmomy/utils.py
\* ------------------------------------------------------------------------
RECURSIVE factorial(_)
factorial(n) == IF n = 0 THEN 1 ELSE n * factorial(n - 1)

_binom(n, k) ==
    IF n > k THEN factorial(n) \div (factorial(k) * factorial(n - k))
    ELSE IF n = k THEN 1
    ELSE 0

\* an optional axis is <<>> (None) or <<k>>; a raised error is the shape <<-1>>
\* variant: the new axis is always inserted in front
_shape_insert_axisFront(shape, axis, new_size) ==
    IF axis = <<>> THEN <<-1>> ELSE <<new_size>> \o shape

_shape_insert_axis(shape, axis, new_size) ==
    IF axis = <<>> THEN <<-1>>
    ELSE IF ~AxisInRange(axis[1], Len(shape) + 1) THEN <<-1>>
    ELSE LET a == normalize_axis_index(axis[1], Len(shape) + 1)
         IN  Take(shape, a) \o <<new_size>> \o Drop(shape, a)

_shape_reduce(shape, axis) ==
    LET a == normalize_axis_index(axis, Len(shape))
    IN  Take(shape, a) \o Drop(shape, a + 1)

\* the expand step of _axis_expand_broadcast (utils.py lines 103-111)
_expand(x, shape, axis) ==
    IF Len(x.shape) = 1 /\ Len(x.shape) # Len(shape)
    THEN IF axis = <<>> THEN Raised
         ELSE IF ~AxisInRange(axis[1], Len(shape)) THEN Raised
         ELSE IF x.shape[1] = shape[normalize_axis_index(axis[1], Len(shape)) + 1]
              THEN LET ones == [j \in 1..(Len(shape) - 1) |-> 1]
                       rs   == _shape_insert_axis(ones, axis, x.shape[1])
                   IN  IF rs = <<-1>> THEN Raised ELSE reshape(x, rs)
              ELSE x
    ELSE x

_axis_expand_broadcast(x, shape, axis, expand, broadcast, roll) ==
    LET Broadcast(x1) ==
            IF IsRaised(x1) THEN Raised
            ELSE IF broadcast /\ x1.shape # shape THEN broadcast_to(x1, shape)
            ELSE x1
        Roll(x2) ==
            IF IsRaised(x2) THEN Raised
            ELSE IF roll /\ axis # <<>> /\ axis[1] # 0
                 THEN IF AxisInRange(axis[1], Len(x2.shape))
                      THEN moveaxis_to_first(x2, normalize_axis_index(axis[1], Len(x2.shape)))
                      ELSE Raised
                 ELSE x2
    IN  Roll(Broadcast(IF expand THEN _expand(x, shape, axis) ELSE x))

\* the exception _axis_expand_broadcast leaves with, "" when it returns:
\* ValueError from the explicit raise (line 106) and from np.broadcast_to,
\* IndexError from shape[axis] (line 108), AxisError from np.moveaxis
_axis_expand_broadcast_exc(x, shape, axis, expand, broadcast, roll) ==
    LET e == IF expand THEN _expand(x, shape, axis) ELSE x
        b == _axis_expand_broadcast(x, shape, axis, expand, broadcast, FALSE)
    IN  IF IsRaised(e)
        THEN IF axis = <<>> THEN "ValueError" ELSE "IndexError"
        ELSE IF IsRaised(b) THEN "ValueError"
        ELSE IF IsRaised(_axis_expand_broadcast(x, shape, axis, expand, broadcast, roll))
             THEN "AxisError"
        ELSE ""

\* ------------------------------------------------------------------------
\* Closed-form weighted moments (src/tests/test_central.py, _get_cmom_single)
\* ws, xs: sequences of rationals of equal length
\* ------------------------------------------------------------------------
_get_cmom_single(ws, xs, moments) ==
    LET n == Len(ws)
        Moments(wsum, xave) ==
            LET y(k) == RDiv(RSum([i \in 1..n |->
                                RMul(ws[i], RPow(RSub(xs[i], xave), k))]), wsum)
            IN  [s \in 1..(moments + 1) |->
                    IF s = 1 THEN wsum ELSE IF s = 2 THEN xave ELSE y(s - 1)]
    IN  Moments(RSum(ws), RDiv(RSum([i \in 1..n |-> RMul(ws[i], xs[i])]), RSum(ws)))

\* ------------------------------------------------------------------------
\* PusherKernels (cmomy/pushers.py, factory_pushers), on one row of the
\* flattened buffer: row[1] = weight W, row[2] = mean M, row[k+1] = C_k.
\* The recurrences are those of the specification, section 4.2, written for
\* slots that hold weighted averages (abstract_central.py lines 56-62): the
\* terms summed over the old records carry the weight fraction W/W' of the
\* records they average over.
\* ------------------------------------------------------------------------
\* sum over j = 1 .. k-2 of C(k,j) * C_{k-j} * f^j * delta^j
Recentre(row, k, f, delta) ==
    RSum([j \in 1..(k - 2) |->
            RMul(RMul(R(_binom(k, j)), row[k - j + 1]),
                 RMul(RPow(f, j), RPow(delta, j)))])

\* push_val: generalized Welford update of one row with the sample (w, x),
\* orders k = p downto 2 (each reads lower orders not yet overwritten)
_push_val(row, w, x) ==
    LET p == Len(row) - 1
        Update(W1, alpha, keep, delta) ==
            LET C(k) == RMul(keep,
                            RAdd(RAdd(row[k + 1], Recentre(row, k, RNeg(alpha), delta)),
                                 RMul(RMul(RPow(delta, k), alpha),
                                      RSub(RPow(keep, k - 1), RPow(RNeg(alpha), k - 1)))))
            IN  [s \in 1..(p + 1) |->
                    IF s = 1 THEN W1
                    ELSE IF s = 2 THEN RAdd(row[2], RMul(delta, alpha))
                    ELSE C(s - 1)]
    IN  Update(RAdd(row[1], w), RDiv(w, RAdd(row[1], w)),
               RDiv(row[1], RAdd(row[1], w)), RSub(x, row[2]))

\* push_data: generalized Pebay merge of accumulator row b into row a
_push_data(a, b) ==
    IF b[1] = R(0) THEN a
    ELSE IF a[1] = R(0) THEN b
    ELSE
    LET p == Len(a) - 1
        Merge(W, fa, fb, delta) ==
            LET C(k) == RAdd(RAdd(RMul(fa, RAdd(a[k + 1], Recentre(a, k, RNeg(fb), delta))),
                                  RMul(fb, RAdd(b[k + 1], Recentre(b, k, fa, delta)))),
                             RMul(RPow(delta, k),
                                  RDiv(RAdd(RMul(a[1], RPow(RNeg(fb), k)),
                                            RMul(b[1], RPow(fa, k))), W)))
            IN  [s \in 1..(p + 1) |->
                    IF s = 1 THEN W
                    ELSE IF s = 2 THEN RAdd(a[2], RMul(delta, fb))
                    ELSE C(s - 1)]
    IN  Merge(RAdd(a[1], b[1]), RDiv(a[1], RAdd(a[1], b[1])),
              RDiv(b[1], RAdd(a[1], b[1])), RSub(b[2], a[2]))

\* rows of a flattened buffer: one row of mom_shape[0] slots per value
Rows(flat, nmom) ==
    [i \in 1..(Len(flat) \div nmom) |-> SubSeq(flat, (i - 1) * nmom + 1, i * nmom)]

RECURSIVE Concat(_)
Concat(rows) == IF rows = <<>> THEN <<>> ELSE rows[1] \o Concat(Tail(rows))

\* kernel "val": one sample per row; w, x are flat (scalar: one element)
_push_val_kernel(data_flat, w, x) ==
    LET nmom == data_flat.shape[Len(data_flat.shape)]
        rows == Rows(data_flat.flat, nmom)
    IN  Arr(data_flat.shape,
            Concat([i \in 1..Len(rows) |-> _push_val(rows[i], w.flat[i], x.flat[i])]))

\* kernel "data": merge one buffer of the same flattened shape
_push_data_kernel(data_flat, other) ==
    LET nmom == data_flat.shape[Len(data_flat.shape)]
        rows == Rows(data_flat.flat, nmom)
        rin  == Rows(other.flat, nmom)
    IN  Arr(data_flat.shape,
            Concat([i \in 1..Len(rows) |-> _push_data(rows[i], rin[i])]))

\* kernel "vals": the records along the leading axis, pushed one at a time
RECURSIVE _push_vals_kernel(_, _, _, _)
_push_vals_kernel(data_flat, w, x, i) ==
    IF i >= x.shape[1] THEN data_flat
    ELSE _push_vals_kernel(_push_val_kernel(data_flat, take(w, i, 0), take(x, i, 0)),
                           w, x, i + 1)

\* kernel "datas": the buffers along the leading axis, merged in order
RECURSIVE _push_datas_kernel(_, _, _)
_push_datas_kernel(data_flat, datas, i) ==
    IF i >= datas.shape[1] THEN data_flat
    ELSE _push_datas_kernel(_push_data_kernel(data_flat, take(datas, i, 0)),
                            datas, i + 1)

\* ------------------------------------------------------------------------
\* The accumulator object (src/cmomy/abstract_central.py, CentralMomentsABC)
\* [cls, mom_ndim, data]; the accumulators of this model are single-variable
\* ------------------------------------------------------------------------
Accum(cls, mom_ndim, data) == [cls |-> cls, mom_ndim |-> mom_ndim, data |-> data]

shape(self)     == self.data.shape
mom_shape(self) == Drop(shape(self), Len(shape(self)) - self.mom_ndim)
mom(self)       == [i \in 1..Len(mom_shape(self)) |-> mom_shape(self)[i] - 1]
val_shape(self) == Take(shape(self), Len(shape(self)) - self.mom_ndim)
val_ndim(self)  == Len(val_shape(self))
val_shape_flat(self) ==
    IF val_shape(self) = <<>> THEN <<>> ELSE <<Prod(val_shape(self))>>
shape_flat(self) == val_shape_flat(self) \o mom_shape(self)

\* zeros(mom, val_shape): the empty accumulator
zeros(cls, moments, vshape) ==
    Accum(cls, 1, Arr(vshape \o <<moments + 1>>,
                      [k \in 1..(Prod(vshape) * (moments + 1)) |-> R(0)]))

\* _weight_index without the ellipsis: the weight of the first value only
_weight_indexFirst(self) == {1}

\* flat positions (1-based) selected by _weight_index: all moment indices 0
_weight_index(self) ==
    {k \in 1..Len(self.data.flat) : (k - 1) % Prod(mom_shape(self)) = 0}

\* weight that reads the slot after the weight slot
weightSecond(self) ==
    LET n == Prod(mom_shape(self))
    IN  Arr(val_shape(self),
            [i \in 1..Prod(val_shape(self)) |-> self.data.flat[(i - 1) * n + 2]])

\* self.values[self._weight_index]
weight(self) ==
    LET n == Prod(mom_shape(self))
    IN  Arr(val_shape(self),
            [i \in 1..Prod(val_shape(self)) |-> self.data.flat[(i - 1) * n + 1]])

mean(self) ==
    LET n == Prod(mom_shape(self))
    IN  Arr(val_shape(self),
            [i \in 1..Prod(val_shape(self)) |-> self.data.flat[(i - 1) * n + 2]])

\* flat positions (1-based) selected by _single_index(val): one moment index
\* val, the others 0
_single_index(self, val) ==
    {k \in 1..Len(self.data.flat) :
        \E p \in 1..self.mom_ndim :
            \A j \in 1..self.mom_ndim :
                Unravel(k - 1, shape(self))[val_ndim(self) + j] = (IF j = p THEN val ELSE 0)}

\* cmom that writes into the buffer itself (out = self.data)
cmomInPlace(self) ==
    [raised |-> FALSE,
     self |-> [self EXCEPT !.data =
                  Arr(shape(self),
                      [k \in 1..Len(self.data.flat) |->
                          IF k \in _single_index(self, 1) THEN R(0)
                          ELSE IF k \in _weight_index(self) THEN R(1)
                          ELSE self.data.flat[k]])],
     ret |-> Arr(shape(self),
                 [k \in 1..Len(self.data.flat) |->
                     IF k \in _single_index(self, 1) THEN R(0)
                     ELSE IF k \in _weight_index(self) THEN R(1)
                     ELSE self.data.flat[k]])]

\* cmom(): a copy of the buffer with the weight slots 1, then the mean
\* slots 0; yields [raised, self, ret] like every call
cmom(self) ==
    [raised |-> FALSE,
     self |-> self,
     ret |-> Arr(shape(self),
                 [k \in 1..Len(self.data.flat) |->
                     IF k \in _single_index(self, 1) THEN R(0)
                     ELSE IF k \in _weight_index(self) THEN R(1)
                     ELSE self.data.flat[k]])]

\* data[self._weight_index] *= scale
ScaleWeight(self, data, scale) ==
    Arr(data.shape,
        [k \in 1..Len(data.flat) |->
            IF k \in _weight_index(self) THEN RMul(data.flat[k], scale)
            ELSE data.flat[k]])

\* fill that writes into the flattened buffer and keeps that
fillFlat(self, value) ==
    [self EXCEPT !.data = Arr(<<Len(self.data.flat)>>,
                              [k \in 1..Len(self.data.flat) |-> value])]

\* fill(value) and zero()
fill(self, value) ==
    [self EXCEPT !.data = Arr(self.data.shape,
                              [k \in 1..Len(self.data.flat) |-> value])]

zero(self) == fill(self, R(0))

\* copy(): a new object over a copy of the data
copy(self) == Accum(self.cls, self.mom_ndim, self.data)

\* ------------------------------------------------------------------------
\* Verification of incoming arrays.  _verify_value is abstract in
\* CentralMomentsABC; it is modelled from the specification, section 4.1:
\* expand, broadcast, compare with the target shape, rotate axis to the
\* front, flatten the value dimensions.
\* ------------------------------------------------------------------------
\* x.shape[axis] of Python for an optional axis; 0 when it raises
ShapeAt(x, axis) ==
    IF axis = <<>> \/ IsRaised(x) \/ IsNone(x) THEN 0
    ELSE IF ~AxisInRange(axis[1], Len(x.shape)) THEN 0
    ELSE x.shape[normalize_axis_index(axis[1], Len(x.shape)) + 1]

_verify_value(x, target_shape, axis, broadcast, expand, sflat) ==
    IF target_shape = <<-1>> \/ IsNone(x) THEN Raised
    ELSE
    LET Flatten(x2) ==
            IF IsRaised(x2) THEN Raised
            ELSE IF axis = <<>> THEN reshape(x2, sflat)
            ELSE reshape(x2, <<x2.shape[1]>> \o sflat)
        Compare(x1) ==
            IF IsRaised(x1) THEN Raised
            ELSE IF x1.shape # target_shape THEN Raised
            ELSE Flatten(_axis_expand_broadcast(x1, target_shape, axis, FALSE, FALSE, TRUE))
    IN  Compare(_axis_expand_broadcast(x, target_shape, axis, expand, broadcast, FALSE))

\* ------------------------------------------------------------------------
\* The _check_* wrappers (abstract_central.py lines 371-460)
\* ------------------------------------------------------------------------
\* _check_weight that takes the default weight whatever w is
_check_weightOnes(self, w, target) ==
    _verify_value(Scalar(R(1)), target.shape, <<>>, TRUE, TRUE, val_shape_flat(self))

_check_weight(self, w, target) ==
    _verify_value(IF IsNone(w) THEN Scalar(R(1)) ELSE w,
                  target.shape, <<>>, TRUE, TRUE, val_shape_flat(self))

_check_weights(self, w, target, axis) ==
    _verify_value(IF IsNone(w) THEN Scalar(R(1)) ELSE w,
                  target.shape, axis, TRUE, TRUE, val_shape_flat(self))

\* target "val": the target shape is self.val_shape
_check_val(self, x, broadcast) ==
    _verify_value(x, val_shape(self), <<>>, broadcast, FALSE, val_shape_flat(self))

\* target "vals": the target shape is val_shape with x.shape[axis] at axis
_check_vals(self, x, axis, broadcast) ==
    IF ShapeAt(x, axis) = 0 THEN Raised
    ELSE _verify_value(x, _shape_insert_axis(val_shape(self), axis, ShapeAt(x, axis)),
                       axis, broadcast, broadcast, val_shape_flat(self))

\* the later arguments of push_vals (second variable, weights) are checked
\* against the shape of the first
_check_vals_like(self, y, target, axis, broadcast) ==
    _verify_value(y, target.shape, axis, broadcast, broadcast, val_shape_flat(self))

_check_data(self, data) ==
    _verify_value(data, shape(self), <<>>, FALSE, FALSE, shape_flat(self))

_check_datas(self, datas, axis) ==
    IF axis = <<>> \/ ShapeAt(datas, axis) = 0
       \/ ~AxisInRange(axis[1], val_ndim(self) + 1) THEN Raised
    ELSE LET a == <<normalize_axis_index(axis[1], val_ndim(self) + 1)>>
         IN  _verify_value(datas,
                           _shape_insert_axis(shape(self), a, ShapeAt(datas, axis)),
                           a, FALSE, FALSE, shape_flat(self))

\* ------------------------------------------------------------------------
\* Mutating operations.  A call yields [raised, self, ret]: whether it
\* raised, the receiver after the call, and the returned object.
\* ------------------------------------------------------------------------
Ok(self, ret)  == [raised |-> FALSE, self |-> self, ret |-> ret]
Raise(self)    == [raised |-> TRUE, self |-> self, ret |-> self]
\* a mutating call returns self
Mutated(new)   == Ok(new, new)

\* a call on two accumulators also yields the other operand after the call
Ok2(self, other, ret) == [raised |-> FALSE, self |-> self, other |-> other, ret |-> ret]
Raise2(self, other)   == [raised |-> TRUE, self |-> self, other |-> other, ret |-> self]

_data_flat(self) == reshape(self.data, shape_flat(self))

\* the buffer after a kernel wrote through the flattened view
WithFlat(self, flat) == [self EXCEPT !.data = reshape(flat, shape(self))]

\* push_data whose kernel writes into a copy of the buffer (a reshape that
\* copies instead of giving a view): the merge is lost
push_dataToCopy(self, data) ==
    LET Push(d) == IF IsRaised(d) THEN Raise(self) ELSE Mutated(self)
    IN  Push(_check_data(self, data))

\* push_data that takes the buffer pushed in place of the merge
push_dataOverwrite(self, data) ==
    LET Push(d) ==
            IF IsRaised(d) THEN Raise(self)
            ELSE Mutated(WithFlat(self, d))
    IN  Push(_check_data(self, data))

push_data(self, data) ==
    LET Push(d) ==
            IF IsRaised(d) THEN Raise(self)
            ELSE Mutated(WithFlat(self, _push_data_kernel(_data_flat(self), d)))
    IN  Push(_check_data(self, data))

\* push_datas that ignores axis and reduces along the first dimension
push_datasAxis0(self, datas, axis) ==
    LET Push(d) ==
            IF IsRaised(d) THEN Raise(self)
            ELSE Mutated(WithFlat(self, _push_datas_kernel(_data_flat(self), d, 0)))
    IN  Push(_check_datas(self, datas, <<0>>))

push_datas(self, datas, axis) ==
    LET Push(d) ==
            IF IsRaised(d) THEN Raise(self)
            ELSE Mutated(WithFlat(self, _push_datas_kernel(_data_flat(self), d, 0)))
    IN  Push(_check_datas(self, datas, axis))

\* push_val that runs the kernel on the verified value before the weights
\* are verified
push_valEarlyKernel(self, x, w) ==
    LET Push(xr, wr) ==
            IF IsRaised(xr) THEN Raise(self)
            ELSE IF IsRaised(wr)
                 THEN Raise(WithFlat(self, _push_val_kernel(_data_flat(self),
                                               _check_weight(self, None, x), xr)))
            ELSE Mutated(WithFlat(self, _push_val_kernel(_data_flat(self), wr, xr)))
    IN  Push(_check_val(self, x, FALSE), _check_weight(self, w, x))

push_val(self, x, w) ==
    LET Push(xr, wr) ==
            IF IsRaised(xr) THEN Raise(self)
            ELSE IF IsRaised(wr) THEN Raise(self)
            ELSE Mutated(WithFlat(self, _push_val_kernel(_data_flat(self), wr, xr)))
    IN  Push(_check_val(self, x, FALSE), _check_weight(self, w, x))

\* push_vals that verifies the weights as push_val does, without the axis
push_valsWeightNoAxis(self, x, w, axis) ==
    LET Push(xr, wr) ==
            IF IsRaised(xr) THEN Raise(self)
            ELSE IF IsRaised(wr) THEN Raise(self)
            ELSE Mutated(WithFlat(self, _push_vals_kernel(_data_flat(self), wr, xr, 0)))
    IN  Push(_check_vals(self, x, axis, FALSE), _check_weight(self, w, x))

push_vals(self, x, w, axis) ==
    LET Push(xr, wr) ==
            IF IsRaised(xr) THEN Raise(self)
            ELSE IF IsRaised(wr) THEN Raise(self)
            ELSE Mutated(WithFlat(self, _push_vals_kernel(_data_flat(self), wr, xr, 0)))
    IN  Push(_check_vals(self, x, axis, FALSE), _check_weights(self, w, x, axis))

\* ------------------------------------------------------------------------
\* Operators
\* ------------------------------------------------------------------------
\* _check_other without the assertion on the types
_check_otherNoType(self, b) ==
    /\ self.mom_ndim = b.mom_ndim
    /\ shape(self) = shape(b)

_check_other(self, b) ==
    /\ self.cls = b.cls
    /\ self.mom_ndim = b.mom_ndim
    /\ shape(self) = shape(b)

\* np.all(self.weight() >= b.weight())
\* the assertion on the weights left out
WeightGeqNone(self, b) == TRUE

WeightGeq(self, b) ==
    \A i \in 1..Len(weight(self).flat) : RGeq(weight(self).flat[i], weight(b).flat[i])

\* the outcome of an in-place operator from that of the push on self (r),
\* and of a new-object operator from that of the push on the new object
InPlaceResult(r, b) ==
    IF r.raised THEN Raise2(r.self, b) ELSE Ok2(r.self, b, r.ret)
NewResult(r, self, b) ==
    IF r.raised THEN Raise2(self, b) ELSE Ok2(self, b, r.ret)

__iadd__(self, b) ==
    IF ~_check_other(self, b) THEN Raise2(self, b)
    ELSE InPlaceResult(push_data(self, b.data), b)

\* __add__ that merges self's own data instead of b's
__add__Self(self, b) ==
    IF ~_check_other(self, b) THEN Raise2(self, b)
    ELSE NewResult(push_data(copy(self), self.data), self, b)

__add__(self, b) ==
    IF ~_check_other(self, b) THEN Raise2(self, b)
    ELSE NewResult(push_data(copy(self), b.data), self, b)

\* __isub__ without the assertion on the weights
\* __isub__ that negates the weight in b's buffer, not in a copy of it
__isub__NoCopy(self, b) ==
    IF ~_check_other(self, b) THEN Raise2(self, b)
    ELSE IF ~WeightGeq(self, b) THEN Raise2(self, b)
    ELSE InPlaceResult(push_data(self, ScaleWeight(self, b.data, R(-1))),
                       [b EXCEPT !.data = ScaleWeight(self, b.data, R(-1))])

__isub__NoAssert(self, b) ==
    IF ~_check_other(self, b) THEN Raise2(self, b)
    ELSE InPlaceResult(push_data(self, ScaleWeight(self, b.data, R(-1))), b)

__isub__(self, b) ==
    IF ~_check_other(self, b) THEN Raise2(self, b)
    ELSE IF ~WeightGeq(self, b) THEN Raise2(self, b)
    ELSE InPlaceResult(push_data(self, ScaleWeight(self, b.data, R(-1))), b)

\* __sub__ without the assertion on the weights
__sub__NoAssert(self, b) ==
    IF ~_check_other(self, b) THEN Raise2(self, b)
    ELSE NewResult(push_data([copy(b) EXCEPT !.data = ScaleWeight(self, b.data, R(-1))],
                             self.data),
                   self, b)

\* __sub__ that forgets to negate the weight of the copy of b
__sub__NoNegate(self, b) ==
    IF ~_check_other(self, b) THEN Raise2(self, b)
    ELSE IF ~WeightGeq(self, b) THEN Raise2(self, b)
    ELSE NewResult(push_data(copy(b), self.data), self, b)

__sub__(self, b) ==
    IF ~_check_other(self, b) THEN Raise2(self, b)
    ELSE IF ~WeightGeq(self, b) THEN Raise2(self, b)
    ELSE NewResult(push_data([copy(b) EXCEPT !.data = ScaleWeight(self, b.data, R(-1))],
                             self.data),
                   self, b)

\* __mul__ that scales the whole buffer, not only the weight
__mul__Whole(self, scale) ==
    Ok(self, [copy(self) EXCEPT !.data =
                 Arr(self.data.shape,
                     [k \in 1..Len(self.data.flat) |-> RMul(self.data.flat[k], scale)])])

__mul__(self, scale) ==
    Ok(self, [copy(self) EXCEPT !.data = ScaleWeight(self, self.data, scale)])

__imul__(self, scale) ==
    Mutated([self EXCEPT !.data = ScaleWeight(self, self.data, scale)])

\* ------------------------------------------------------------------------
\* Manipulation (abstract_central.py lines 982-1134).  from_data, from_datas
\* and zeros are abstract in CentralMomentsABC, and the resampling module is
\* not part of the sources: they are modelled from their docstrings and from
\* the specification, sections 4.3 and 4.5.
\* ------------------------------------------------------------------------
\* _is_vector that looks at the rank of the whole buffer
_is_vectorNdim(self) == Len(shape(self)) > 0

_is_vector(self) == val_ndim(self) > 0

\* TRUE when _raise_if_scalar raises ValueError
_raise_if_scalar(self) == ~_is_vector(self)

\* _wrap_axis(axis) with the defaults default=0, ndim=self.val_ndim;
\* -1 stands for AxisError
\* _wrap_axis that counts a negative axis from the front
_wrap_axisFromFront(self, axis) ==
    IF axis # <<>> /\ axis[1] < 0 /\ AxisInRange(axis[1], val_ndim(self))
    THEN -axis[1] - 1
    ELSE normalize_axis_index(IF axis = <<>> THEN 0 ELSE axis[1], val_ndim(self))

_wrap_axis(self, axis) ==
    normalize_axis_index(IF axis = <<>> THEN 0 ELSE axis[1], val_ndim(self))

\* _datas_axis_to_first: the batch with axis moved to the front
_datas_axis_to_first(datas, axis, mom_ndim) ==
    IF ~AxisInRange(axis, Len(datas.shape) - mom_ndim) THEN Raised
    ELSE IF normalize_axis_index(axis, Len(datas.shape) - mom_ndim) # 0
    THEN moveaxis_to_first(datas, normalize_axis_index(axis, Len(datas.shape) - mom_ndim))
    ELSE datas

\* zeros(shape=shape, mom_ndim=mom_ndim)
zeros_shape(cls, shp, mom_ndim) ==
    Accum(cls, mom_ndim, Arr(shp, [k \in 1..Prod(shp) |-> R(0)]))

\* from_data(data, mom_ndim, mom): wrap a buffer; the buffer must have the
\* moment dimensions, and those that mom states
from_data(cls, data, mom_ndim, moments) ==
    IF IsRaised(data) THEN Raise(Accum(cls, mom_ndim, data))
    ELSE IF Len(data.shape) < mom_ndim THEN Raise(Accum(cls, mom_ndim, data))
    ELSE IF moments # <<>> /\ mom(Accum(cls, mom_ndim, data)) # moments
    THEN Raise(Accum(cls, mom_ndim, data))
    ELSE Mutated(Accum(cls, mom_ndim, data))

\* from_datas(datas, mom_ndim, axis): an empty accumulator of the shape of
\* one buffer, into which the batch is merged along axis
from_datas(cls, datas, mom_ndim, axis) ==
    LET Build(d) ==
            IF IsRaised(d) THEN Raise(Accum(cls, mom_ndim, d))
            ELSE push_datas(zeros_shape(cls, Tail(d.shape), mom_ndim), d, <<0>>)
    IN  Build(_datas_axis_to_first(datas, axis, mom_ndim))

\* a call that raised, with the exception it raised
RaiseExc(self, exc) == [raised |-> TRUE, self |-> self, ret |-> self, exc |-> exc]

\* the outcome of a call on self that returns what a constructor built
Returned(self, r) == IF r.raised THEN RaiseExc(self, "Error") ELSE Ok(self, r.ret)

\* reduce that merges along the first axis whatever axis is
reduceAxis0(self, axis) ==
    IF _raise_if_scalar(self) THEN RaiseExc(self, "ValueError")
    ELSE IF _wrap_axis(self, axis) = -1 THEN RaiseExc(self, "AxisError")
    ELSE Returned(self, from_datas(self.cls, self.data, self.mom_ndim, 0))

reduce(self, axis) ==
    IF _raise_if_scalar(self) THEN RaiseExc(self, "ValueError")
    ELSE IF _wrap_axis(self, axis) = -1 THEN RaiseExc(self, "AxisError")
    ELSE Returned(self, from_datas(self.cls, self.data, self.mom_ndim,
                                   _wrap_axis(self, axis)))

\* data[:m, ...]
SliceFirst(data, m) ==
    Arr(<<m>> \o Tail(data.shape), SubSeq(data.flat, 1, m * Prod(Tail(data.shape))))

\* block that reshapes the records without cutting the remainder off
blockNoTruncate(self, block_size, axis) ==
    IF _raise_if_scalar(self) THEN RaiseExc(self, "ValueError")
    ELSE IF _wrap_axis(self, axis) = -1 THEN RaiseExc(self, "AxisError")
    ELSE IF block_size = <<0>> THEN RaiseExc(self, "ZeroDivisionError")
    ELSE
    LET Blocks(data, n) ==
            LET bs     == IF block_size = <<>> THEN n ELSE block_size[1]
                nblock == IF block_size = <<>> THEN 1 ELSE n \div block_size[1]
            IN  Returned(self,
                         from_datas(self.cls,
                                    reshape(data,
                                            <<nblock, bs>> \o Tail(data.shape)),
                                    self.mom_ndim, 1))
        Moved(data) == Blocks(data, data.shape[1])
    IN  Moved(IF _wrap_axis(self, axis) # 0
              THEN moveaxis_to_first(self.data, _wrap_axis(self, axis))
              ELSE self.data)

\* block_size None is <<>>; a block_size of 0 divides by zero
block(self, block_size, axis) ==
    IF _raise_if_scalar(self) THEN RaiseExc(self, "ValueError")
    ELSE IF _wrap_axis(self, axis) = -1 THEN RaiseExc(self, "AxisError")
    ELSE IF block_size = <<0>> THEN RaiseExc(self, "ZeroDivisionError")
    ELSE
    LET Blocks(data, n) ==
            LET bs     == IF block_size = <<>> THEN n ELSE block_size[1]
                nblock == IF block_size = <<>> THEN 1 ELSE n \div block_size[1]
            IN  Returned(self,
                         from_datas(self.cls,
                                    reshape(SliceFirst(data, nblock * bs),
                                            <<nblock, bs>> \o Tail(data.shape)),
                                    self.mom_ndim, 1))
        Moved(data) == Blocks(data, data.shape[1])
    IN  Moved(IF _wrap_axis(self, axis) # 0
              THEN moveaxis_to_first(self.data, _wrap_axis(self, axis))
              ELSE self.data)

\* np.take(data, indices, axis=0) for a table of indices (nrep, nrec);
\* Raised (IndexError) when an index is out of bounds
take_table(data, indices) ==
    IF \E k \in 1..Len(indices.flat) :
          indices.flat[k] < -data.shape[1] \/ indices.flat[k] >= data.shape[1]
    THEN Raised
    ELSE LET rest == Prod(Tail(data.shape))
             Row(i) == SubSeq(data.flat, ((i + data.shape[1]) % data.shape[1]) * rest + 1,
                              (((i + data.shape[1]) % data.shape[1]) + 1) * rest)
         IN  Arr(indices.shape \o Tail(data.shape),
                 Concat([k \in 1..Len(indices.flat) |-> Row(indices.flat[k])]))

\* resample that gathers along the first axis whatever axis is
resampleAxis0(self, indices, axis) ==
    IF _raise_if_scalar(self) THEN RaiseExc(self, "ValueError")
    ELSE IF _wrap_axis(self, axis) = -1 THEN RaiseExc(self, "AxisError")
    ELSE Returned(self,
                  from_data(self.cls, take_table(self.data, indices),
                            self.mom_ndim, mom(self)))

\* resample(indices, axis) with first=True: the records gathered along the
\* axis, moved to the front
resample(self, indices, axis) ==
    IF _raise_if_scalar(self) THEN RaiseExc(self, "ValueError")
    ELSE IF _wrap_axis(self, axis) = -1 THEN RaiseExc(self, "AxisError")
    ELSE Returned(self,
                  from_data(self.cls,
                            take_table(IF _wrap_axis(self, axis) # 0
                                       THEN moveaxis_to_first(self.data, _wrap_axis(self, axis))
                                       ELSE self.data,
                                       indices),
                            self.mom_ndim, mom(self)))

\* randsamp_freq(freq, indices, size, check=True): the table given, or the
\* count of each record in each row of indices; a table that is not of
\* width size raises.  (A table drawn at random for nrep is drawn by the
\* caller of this operator.)
randsamp_freq(indices, freq, size) ==
    IF ~IsNone(freq)
    THEN IF Len(freq.shape) = 2 /\ freq.shape[2] = size THEN freq ELSE Raised
    ELSE IF IsNone(indices) THEN Raised
    ELSE IF Len(indices.shape) # 2 \/ indices.shape[2] # size THEN Raised
    ELSE IF \E k \in 1..Len(indices.flat) : indices.flat[k] < 0 \/ indices.flat[k] >= size
    THEN Raised
    ELSE Arr(indices.shape,
             [k \in 1..Len(indices.flat) |->
                 Cardinality({c \in 1..size :
                     indices.flat[((k - 1) \div size) * size + c] = (k - 1) % size})])

\* MergeScaled that takes the frequencies of the first replicate for all
RECURSIVE MergeScaledFirstRow(_, _, _, _, _)
MergeScaledFirstRow(self, datas, freq, r, c) ==
    IF c >= datas.shape[1] THEN self
    ELSE MergeScaledFirstRow(push_data(self,
                                       ScaleWeight(self, take(datas, c, 0),
                                                   R(freq.flat[c + 1]))).self,
                             datas, freq, r, c + 1)

\* one replicate: the records along the first axis merged in order, the
\* weight of record c multiplied by freq[r, c]
RECURSIVE MergeScaled(_, _, _, _, _)
MergeScaled(self, datas, freq, r, c) ==
    IF c >= datas.shape[1] THEN self
    ELSE MergeScaled(push_data(self,
                               ScaleWeight(self, take(datas, c, 0),
                                           R(freq.flat[r * datas.shape[1] + c + 1]))).self,
                     datas, freq, r, c + 1)

\* the buffer of replicate r alone: what resample_data writes into slot r
resample_rep(self, freq, axis, r) ==
    LET Rep(datas) ==
            MergeScaled(zeros_shape(self.cls, Tail(datas.shape), self.mom_ndim),
                        datas, freq, r, 0).data.flat
    IN  Rep(IF axis # 0 THEN moveaxis_to_first(self.data, axis) ELSE self.data)

\* resample_data(data, freq, mom, axis): one buffer per replicate
resample_data(self, freq, axis) ==
    LET Reps(datas) ==
            Arr(<<freq.shape[1]>> \o Tail(datas.shape),
                Concat([r \in 1..freq.shape[1] |->
                           MergeScaled(zeros_shape(self.cls, Tail(datas.shape), self.mom_ndim),
                                       datas, freq, r - 1, 0).data.flat]))
    IN  Reps(IF axis # 0 THEN moveaxis_to_first(self.data, axis) ELSE self.data)

\* resample_and_reduce that resamples along the first axis whatever axis is
resample_and_reduceAxis0(self, freq, indices, axis) ==
    IF _raise_if_scalar(self) THEN RaiseExc(self, "ValueError")
    ELSE IF _wrap_axis(self, axis) = -1 THEN RaiseExc(self, "AxisError")
    ELSE
    LET Resample(f) ==
            IF IsRaised(f) THEN RaiseExc(self, "Error")
            ELSE Returned(self, from_data(self.cls, resample_data(self, f, 0),
                                          self.mom_ndim, <<>>))
    IN  Resample(randsamp_freq(indices, freq, val_shape(self)[1]))

resample_and_reduce(self, freq, indices, axis) ==
    IF _raise_if_scalar(self) THEN RaiseExc(self, "ValueError")
    ELSE IF _wrap_axis(self, axis) = -1 THEN RaiseExc(self, "AxisError")
    ELSE
    LET Resample(f) ==
            IF IsRaised(f) THEN RaiseExc(self, "Error")
            ELSE Returned(self, from_data(self.cls,
                                          resample_data(self, f, _wrap_axis(self, axis)),
                                          self.mom_ndim, <<>>))
    IN  Resample(randsamp_freq(indices, freq, val_shape(self)[_wrap_axis(self, axis) + 1]))

\* ------------------------------------------------------------------------
\* Resolving the moment specification (abstract_central.py lines 651-737).
\* Python values: [t |-> "none"], [t |-> "int", v |-> n], and
\* [t |-> "tuple", v |-> <<...>>], [t |-> "list", v |-> <<...>>]
\* ------------------------------------------------------------------------
PyNone     == [t |-> "none"]
PyInt(n)   == [t |-> "int", v |-> n]
PyTuple(s) == [t |-> "tuple", v |-> s]
PyList(s)  == [t |-> "list", v |-> s]

\* the outcome of a function: what it returns, or the exception it raises
Returns(v)  == [raised |-> FALSE, exc |-> "", ret |-> v]
Raises(exc) == [raised |-> TRUE, exc |-> exc, ret |-> PyNone]

\* s[-n:] of Python for n >= 0: all of s when n = 0 or n >= len(s)
LastN(s, n) == IF n = 0 \/ n >= Len(s) THEN s ELSE SubSeq(s, Len(s) - n + 1, Len(s))

\* the last statements of _check_mom: assert len(moments) == mom_ndim
AssertLen(moments, mom_ndim) ==
    IF Len(moments) = mom_ndim THEN Returns(PyTuple(moments))
    ELSE Raises("AssertionError")

\* _check_mom without the assertion on the length
_check_momNoAssert(moments, mom_ndim, shp) ==
    IF moments.t = "none"
    THEN IF shp.t # "none"
         THEN IF mom_ndim.t = "none" THEN Raises("ValueError")
              ELSE Returns(PyTuple([i \in 1..Len(LastN(shp.v, mom_ndim.v)) |->
                                       LastN(shp.v, mom_ndim.v)[i] - 1]))
         ELSE Raises("ValueError")
    ELSE IF moments.t = "int"
    THEN Returns(PyTuple([i \in 1..(IF mom_ndim.t = "none" THEN 1 ELSE mom_ndim.v) |->
                             moments.v]))
    ELSE Returns(PyTuple(moments.v))

_check_mom(moments, mom_ndim, shp) ==
    IF moments.t = "none"
    THEN IF shp.t # "none"
         THEN IF mom_ndim.t = "none" THEN Raises("ValueError")
              ELSE AssertLen([i \in 1..Len(LastN(shp.v, mom_ndim.v)) |->
                                 LastN(shp.v, mom_ndim.v)[i] - 1],
                             mom_ndim.v)
         ELSE Raises("ValueError")
    ELSE IF moments.t = "int"
    THEN AssertLen([i \in 1..(IF mom_ndim.t = "none" THEN 1 ELSE mom_ndim.v) |-> moments.v],
                   IF mom_ndim.t = "none" THEN 1 ELSE mom_ndim.v)
    ELSE AssertLen(moments.v, IF mom_ndim.t = "none" THEN Len(moments.v) ELSE mom_ndim.v)

_mom_ndim_from_mom(moments) ==
    IF moments.t = "int" THEN Returns(PyInt(1))
    ELSE IF moments.t = "tuple" THEN Returns(PyInt(Len(moments.v)))
    ELSE Raises("ValueError")

_choose_mom_ndim(moments, mom_ndim) ==
    IF moments.t # "none" THEN _mom_ndim_from_mom(moments)
    ELSE IF mom_ndim.t = "none" THEN Raises("ValueError")
    ELSE Returns(mom_ndim)

\* ------------------------------------------------------------------------
\* Converter.  to_raw (abstract_central.py lines 325-334) hands the buffer
\* to convert.to_raw_moments / convert.to_raw_comoments; from_raw is abstract
\* in CentralMomentsABC.  The convert module is not part of the sources: the
\* transforms are modelled from the specification, section 4.4, with the
\* layout that the docstrings of to_raw and from_raw state (slot 0 the
\* weight, slot k the raw moment <x**k>).
\* ------------------------------------------------------------------------
\* central[k] of the binomial expansion for one variable: 1, 0, and from
\* order 2 the slot of the row
central_at(row, k) == IF k = 0 THEN R(1) ELSE IF k = 1 THEN R(0) ELSE row[k + 1]

\* sum over j in lo..k of C(k,j) * m**j * central[k-j]
binom_sum(row, m, k, lo) ==
    RSum([q \in 1..(k - lo + 1) |->
            RMul(RMul(R(_binom(k, q + lo - 1)), RPow(m, q + lo - 1)),
                 central_at(row, k - (q + lo - 1)))])

\* raw[k] = sum_{j=0..k} C(k,j) mean**j central[k-j]; raw[0] is the weight
to_raw_row(row) ==
    [p \in 1..Len(row) |-> IF p = 1 THEN row[1] ELSE binom_sum(row, row[2], p - 1, 0)]

\* the first n slots of the central row that solves the recurrence for raw
\* with mean m: central[k] = raw[k] - sum_{j=1..k} C(k,j) m**j central[k-j]
RECURSIVE solve_central(_, _, _)
solve_central(raw, m, n) ==
    IF n = 1 THEN <<raw[1]>>
    ELSE IF n = 2 THEN <<raw[1], m>>
    ELSE LET Solve(c) == Append(c, RSub(raw[n], binom_sum(c, m, n - 1, 1)))
         IN  Solve(solve_central(raw, m, n - 1))

\* the inverse transform: mean = raw[1] / raw[0]
to_central_row(raw) == solve_central(raw, RDiv(raw[2], raw[1]), Len(raw))

\* two variables: a block of n0 * n1 slots in C order, (i, j) at i * n1 + j + 1
cocentral_at(blk, n1, i, j) ==
    IF i = 0 /\ j = 0 THEN R(1)
    ELSE IF i + j = 1 THEN R(0)
    ELSE blk[i * n1 + j + 1]

\* sum over i' <= i, j' <= j, from the lo-th term on, of
\* C(i,i') C(j,j') m0**i' m1**j' central[i-i', j-j']
cobinom_sum(blk, n1, m0, m1, i, j, lo) ==
    RSum([q \in 1..((i + 1) * (j + 1) - lo) |->
            RMul(RMul(R(_binom(i, (q + lo - 1) \div (j + 1))
                        * _binom(j, (q + lo - 1) % (j + 1))),
                      RMul(RPow(m0, (q + lo - 1) \div (j + 1)),
                           RPow(m1, (q + lo - 1) % (j + 1)))),
                 cocentral_at(blk, n1, i - ((q + lo - 1) \div (j + 1)),
                              j - ((q + lo - 1) % (j + 1))))])

to_raw_block(blk, n1) ==
    [p \in 1..Len(blk) |->
        IF p = 1 THEN blk[1]
        ELSE cobinom_sum(blk, n1, blk[n1 + 1], blk[2], (p - 1) \div n1, (p - 1) % n1, 0)]

\* the first n slots of the central block that solves the expansion for raw
\* with means m0, m1
RECURSIVE solve_cocentral(_, _, _, _, _)
solve_cocentral(raw, n1, m0, m1, n) ==
    IF n = 1 THEN <<raw[1]>>
    ELSE LET Solve(c) ==
                 Append(c,
                        IF n = 2 THEN m1
                        ELSE IF n = n1 + 1 THEN m0
                        ELSE RSub(raw[n],
                                  cobinom_sum(c, n1, m0, m1,
                                              (n - 1) \div n1, (n - 1) % n1, 1)))
         IN  Solve(solve_cocentral(raw, n1, m0, m1, n - 1))

to_central_block(raw, n1) ==
    solve_cocentral(raw, n1, RDiv(raw[n1 + 1], raw[1]), RDiv(raw[2], raw[1]), Len(raw))

\* convert.to_raw_moments(x), convert.to_raw_comoments(x): every row, every
\* block of x
to_raw_moments(x) ==
    Arr(x.shape,
        Concat([i \in 1..(Len(x.flat) \div x.shape[Len(x.shape)]) |->
                   to_raw_row(Rows(x.flat, x.shape[Len(x.shape)])[i])]))

to_raw_comoments(x) ==
    Arr(x.shape,
        Concat([i \in 1..(Len(x.flat) \div (x.shape[Len(x.shape)] * x.shape[Len(x.shape) - 1])) |->
                   to_raw_block(Rows(x.flat, x.shape[Len(x.shape)]
                                             * x.shape[Len(x.shape) - 1])[i],
                                x.shape[Len(x.shape)])]))

\* convert.to_central_moments(x), convert.to_central_comoments(x)
to_central_moments(x) ==
    Arr(x.shape,
        Concat([i \in 1..(Len(x.flat) \div x.shape[Len(x.shape)]) |->
                   to_central_row(Rows(x.flat, x.shape[Len(x.shape)])[i])]))

to_central_comoments(x) ==
    Arr(x.shape,
        Concat([i \in 1..(Len(x.flat) \div (x.shape[Len(x.shape)] * x.shape[Len(x.shape) - 1])) |->
                   to_central_block(Rows(x.flat, x.shape[Len(x.shape)]
                                                 * x.shape[Len(x.shape) - 1])[i],
                                    x.shape[Len(x.shape)])]))

\* to_raw(): the raw moments of the buffer; None when mom_ndim is neither 1
\* nor 2
to_raw(self) ==
    IF self.mom_ndim = 1 THEN Ok(self, to_raw_moments(self.data))
    ELSE IF self.mom_ndim = 2 THEN Ok(self, to_raw_comoments(self.data))
    ELSE Ok(self, None)

\* from_raw(raw, mom_ndim): the accumulator over the central moments that
\* the Converter makes of raw
from_raw(cls, raw, mom_ndim) ==
    IF mom_ndim = 1 THEN from_data(cls, to_central_moments(raw), mom_ndim, <<>>)
    ELSE from_data(cls, to_central_comoments(raw), mom_ndim, <<>>)
\* ------------------------------------------------------------------------
\* The buffer an object returned by a call views: the buffer of an operand
\* (buf) or a new one (fresh).  new_like is abstract in CentralMomentsABC; its
\* docstring (abstract_central.py lines 200-201) says copy=True copies data.
\* ------------------------------------------------------------------------
new_like_buffer(buf, copy_flag, fresh) == IF copy_flag THEN fresh ELSE buf

\* copy() that passes copy=False to new_like
copy_bufferShared(buf, fresh) == new_like_buffer(buf, FALSE, fresh)

\* copy(): self.new_like(data=self.values, copy=True, ...)
copy_buffer(buf, fresh) == new_like_buffer(buf, TRUE, fresh)

\* a + b returns self.copy().push_data(b.data), and push_data returns the
\* object it was called on; a - b returns new.push_data(self.data) for
\* new = b.copy(); a * s returns new for new = self.copy()
add_buffer(a, b, fresh) == copy_buffer(a, fresh)
sub_buffer(a, b, fresh) == copy_buffer(b, fresh)
mul_buffer(a, fresh)    == copy_buffer(a, fresh)

\* ------------------------------------------------------------------------
\* The state
\* ------------------------------------------------------------------------
VARIABLES
    acc,    \* the accumulator objects, by the name the test program gives them
    seen,   \* per accumulator: the total weight it has absorbed of each sample
            \* value of Xs (history; <<>> once that is no longer defined)
    last,   \* the last call: its operation and whether it raised
    nops,   \* number of calls made
    prev,   \* the accumulator "out" as it was before the last call
    batch,  \* the arguments a scenario works on (a batch-push: [x, w, axis])
    pos,    \* records of the batch pushed so far, one at a time
    owner   \* per name: the identity of the buffer its object's data views

vars == <<acc, seen, last, nops, prev, batch, pos, owner>>

\* bounds of the exploration
MaxOps == 2

\* mom_shape of the accumulators A, B, C and out: moments up to order 3
MomShape == <<4>>
Mom == MomShape[1] - 1

\* sample values, and the partitions of the data the accumulators A, B, C
\* and D are built from: the weight each holds of every sample value
\* (test_central.py lines 76-83: split the data, closed-form moments of each)
Xs == <<0, 1, 3>>
Partitions ==
    [A |-> {<<1, 1, 2>>},
     B |-> {<<1, 0, 2>>},
     C |-> {<<0, 0, 0>>, <<2, 1, 0>>},
     D |-> {<<1, 1, 0>>}]

Inputs == {"A", "B", "C", "D"}
Operands == Inputs \cup {"out"}

\* weighted moments of the samples a history stands for
HistWeight(h) == RSum([i \in 1..Len(h) |-> R(h[i])])
HistMoments(h, moments) ==
    _get_cmom_single([i \in 1..Len(h) |-> R(h[i])],
                     [i \in 1..Len(h) |-> R(Xs[i])], moments)

\* from_data over the closed-form moments of a partition; the empty
\* accumulator when the partition is empty (test_central.py lines 106, 112)
FromPartition(h, moments) ==
    IF HistWeight(h) = R(0) THEN zeros("CentralMoments", moments, <<>>)
    ELSE Accum("CentralMoments", 1, Arr(<<moments + 1>>, HistMoments(h, moments)))

NoBatch == [x |-> None, w |-> None, axis |-> <<>>]

\* a call: the operation, its operands by name ("" where there is none),
\* and whether it raised
Call(op, a, b, raised) == [op |-> op, a |-> a, b |-> b, raised |-> raised]

\* A, B, C: accumulators of order Mom over the partitions; D: one of a lower
\* order, which no operator accepts as the partner of the others; out: empty
Init ==
    /\ \E ha \in Partitions.A, hb \in Partitions.B,
          hc \in Partitions.C, hd \in Partitions.D :
          /\ seen = [n \in Operands |->
                        CASE n = "A" -> ha [] n = "B" -> hb [] n = "C" -> hc
                          [] n = "D" -> hd [] OTHER -> <<0, 0, 0>>]
          /\ acc = [n \in Operands |->
                        FromPartition(seen[n], IF n = "D" THEN Mom - 1 ELSE Mom)]
    /\ last = Call("init", "", "", FALSE)
    /\ nops = 0
    /\ prev = acc["out"]
    /\ batch = NoBatch
    /\ pos = 0
    /\ owner = [n \in Operands |-> n]

\* ------------------------------------------------------------------------
\* History bookkeeping
\* ------------------------------------------------------------------------
Tracked(h) == h # <<>>
HAdd(h, g) == IF Tracked(h) /\ Tracked(g) /\ Len(h) = Len(g)
              THEN [i \in 1..Len(h) |-> h[i] + g[i]] ELSE <<>>
\* a difference is defined where every weight stays >= 0; a difference that
\* removes all the weight leaves no samples to stand for (the merge divides
\* by the total weight 0)
HSub(h, g) == IF Tracked(h) /\ Tracked(g) /\ Len(h) = Len(g)
                 /\ (\A i \in 1..Len(h) : h[i] >= g[i])
                 /\ (\E i \in 1..Len(h) : h[i] > g[i] \/ \A j \in 1..Len(g) : g[j] = 0)
              THEN [i \in 1..Len(h) |-> h[i] - g[i]] ELSE <<>>
HScale(h, k) == IF Tracked(h) /\ k >= 0 THEN [i \in 1..Len(h) |-> k * h[i]] ELSE <<>>
HZero == [i \in 1..Len(Xs) |-> 0]
HOne(i, w) == [j \in 1..Len(Xs) |-> IF j = i THEN w ELSE 0]

\* every call is one step: it counts the call, records the operation and
\* whether it raised, and leaves the batch scenario alone
Record(op, a, b, raised) ==
    /\ nops' = nops + 1
    /\ last' = Call(op, a, b, raised)
    /\ prev' = acc["out"]
    /\ UNCHANGED <<batch, pos, owner>>

Step(op, a, b, raised) ==
    /\ nops < MaxOps
    /\ Record(op, a, b, raised)

\* a call on the receiver "out" that mutates it in place
InPlace(op, r, h) ==
    /\ Step(op, "out", "", r.raised)
    /\ acc' = [acc EXCEPT !["out"] = r.self]
    /\ seen' = [seen EXCEPT !["out"] = IF r.raised THEN @ ELSE h]

\* out (op)= m for an operand m
InPlace2(op, m, r, h) ==
    /\ Step(op, "out", m, r.raised)
    /\ acc' = [acc EXCEPT ![m] = r.other, !["out"] = r.self]
    /\ seen' = [seen EXCEPT !["out"] = IF r.raised THEN @ ELSE h]

\* out = a (op) b
Assign2(op, a, b, r, h) ==
    /\ Step(op, a, b, r.raised)
    /\ acc' = [acc EXCEPT ![a] = r.self, ![b] = r.other,
                          !["out"] = IF r.raised THEN acc["out"] ELSE r.ret]
    /\ seen' = [seen EXCEPT !["out"] = IF r.raised THEN @ ELSE h]

\* out = a * scale
Assign1(op, a, r, h) ==
    /\ Step(op, a, "", r.raised)
    /\ acc' = [acc EXCEPT ![a] = r.self,
                          !["out"] = IF r.raised THEN acc["out"] ELSE r.ret]
    /\ seen' = [seen EXCEPT !["out"] = IF r.raised THEN @ ELSE h]

\* ------------------------------------------------------------------------
\* Inputs of the calls
\* ------------------------------------------------------------------------
\* a value for a scalar accumulator, or a rank-1 array it must reject
ValInputs    == {Scalar(R(Xs[i])) : i \in 1..Len(Xs)} \cup {Arr(<<2>>, <<R(0), R(1)>>)}
\* no weight, a scalar weight, or a rank-1 array that cannot broadcast
WeightInputs == {None, Scalar(R(2)), Arr(<<2>>, <<R(1), R(2)>>)}
Scales       == {0, 2}

XIndex(x) == CHOOSE i \in 1..Len(Xs) : x.shape # <<>> \/ R(Xs[i]) = x.flat[1]
WeightOf(w) == IF w.shape = <<>> THEN w.flat[1][1] ELSE 1

\* np.array([a.data, b.data]): a batch of buffers along axis 0
Stack(a, b) == Arr(<<2>> \o a.shape, a.flat \o b.flat)

\* batches of two samples for push_vals on a scalar accumulator: x with no
\* weights, with weights, with weights of another length, and a scalar x
\* (no axis to reduce along)
ValsInputs ==
    {[x |-> Arr(<<2>>, <<R(1), R(3)>>), w |-> None],
     [x |-> Arr(<<2>>, <<R(1), R(3)>>), w |-> Arr(<<2>>, <<R(2), R(1)>>)],
     [x |-> Arr(<<2>>, <<R(1), R(3)>>), w |-> Arr(<<3>>, <<R(2), R(1), R(1)>>)],
     [x |-> Scalar(R(1)), w |-> None]}

\* batches of two buffers for push_datas, by the accumulators they stack,
\* and the axis: D's buffers have another moment shape, axis 1 does not
\* exist for a scalar accumulator
DatasInputs ==
    {[a |-> "A", b |-> "C", axis |-> <<0>>],
     [a |-> "B", b |-> "A", axis |-> <<0>>],
     [a |-> "D", b |-> "D", axis |-> <<0>>],
     [a |-> "A", b |-> "C", axis |-> <<1>>]}

\* ------------------------------------------------------------------------
\* Actions: the calls of the test program on the accumulator "out"
\* ------------------------------------------------------------------------
PushValStep(x, w) ==
    InPlace("push_val", push_val(acc["out"], x, w),
            HAdd(seen["out"], HOne(XIndex(x), WeightOf(w))))

PushDataStep(m) ==
    InPlace2("push_data", m,
             InPlaceResult(push_data(acc["out"], acc[m].data), acc[m]),
             HAdd(seen["out"], seen[m]))

PushValsStep(in) ==
    InPlace("push_vals", push_vals(acc["out"], in.x, in.w, <<0>>),
            IF in.x.shape = <<2>> /\ in.w.shape \in {<<-2>>, <<2>>}
            THEN HAdd(HAdd(seen["out"],
                           HOne(XIndex(Scalar(in.x.flat[1])),
                                IF IsNone(in.w) THEN 1 ELSE in.w.flat[1][1])),
                      HOne(XIndex(Scalar(in.x.flat[2])),
                           IF IsNone(in.w) THEN 1 ELSE in.w.flat[2][1]))
            ELSE <<>>)

PushDatasStep(in) ==
    InPlace("push_datas",
            push_datas(acc["out"], Stack(acc[in.a].data, acc[in.b].data), in.axis),
            HAdd(HAdd(seen["out"], seen[in.a]), seen[in.b]))

IAddStep(m) ==
    InPlace2("iadd", m, __iadd__(acc["out"], acc[m]), HAdd(seen["out"], seen[m]))

ISubStep(m) ==
    InPlace2("isub", m, __isub__(acc["out"], acc[m]), HSub(seen["out"], seen[m]))

IMulStep(k) ==
    InPlace(IF k = 2 THEN "imul2" ELSE "imul", __imul__(acc["out"], R(k)),
            HScale(seen["out"], k))

AddStep(a, b) ==
    Assign2("add", a, b, __add__(acc[a], acc[b]), HAdd(seen[a], seen[b]))

SubStep(a, b) ==
    Assign2("sub", a, b, __sub__(acc[a], acc[b]), HSub(seen[a], seen[b]))

MulStep(a, k) ==
    Assign1(IF k = 2 THEN "mul2" ELSE "mul", a, __mul__(acc[a], R(k)),
            HScale(seen[a], k))

PushVal  == \E x \in ValInputs, w \in WeightInputs : PushValStep(x, w)
PushVals == \E in \in ValsInputs : PushValsStep(in)
PushData == \E m \in Operands : PushDataStep(m)
PushDatas == \E in \in DatasInputs : PushDatasStep(in)
IAdd     == \E m \in Operands : IAddStep(m)
ISub     == \E m \in Operands : ISubStep(m)
IMul     == \E k \in Scales : IMulStep(k)
Add      == \E a \in Operands, b \in Operands : AddStep(a, b)
Sub      == \E a \in Operands, b \in Operands : SubStep(a, b)
Mul      == \E a \in Operands, k \in Scales : MulStep(a, k)
Zero     == InPlace("zero", Mutated(zero(acc["out"])), HZero)

Next ==
    \/ PushVal
    \/ PushVals
    \/ PushData
    \/ PushDatas
    \/ IAdd
    \/ ISub
    \/ IMul
    \/ Add
    \/ Sub
    \/ Mul
    \/ Zero

Spec == Init /\ [][Next]_vars

\* the buffer of an accumulator that stands for samples of positive total
\* weight holds their closed-form moments
SeenMoments(n) ==
    (Tracked(seen[n]) /\ RGeq(HistWeight(seen[n]), R(1)))
        => acc[n].data.flat = HistMoments(seen[n], mom(acc[n])[1])

\* ------------------------------------------------------------------------
\* Pushing samples one at a time into an accumulator created empty
\* (test_central.py, test_StatsAccum_vals lines 50-53)
\* ------------------------------------------------------------------------
MaxPush == 3

\* the samples' values and (positive) weights: none given, 2, 3
PushValues  == {Scalar(R(Xs[i])) : i \in 1..Len(Xs)}
PushWeights == {None, Scalar(R(2)), Scalar(R(3))}

InitPush ==
    /\ acc = [n \in Operands |-> zeros("CentralMoments", Mom, <<>>)]
    /\ seen = [n \in Operands |-> HZero]
    /\ last = Call("init", "", "", FALSE)
    /\ nops = 0
    /\ prev = acc["out"]
    /\ batch = NoBatch
    /\ pos = 0
    /\ owner = [n \in Operands |-> n]

PushSample(x, w) ==
    /\ nops < MaxPush
    /\ \E r \in {push_val(acc["out"], x, w)} :
          /\ Record("push_val", "out", "", r.raised)
          /\ acc' = [acc EXCEPT !["out"] = r.self]
          /\ seen' = [seen EXCEPT !["out"] =
                         IF r.raised THEN @ ELSE HAdd(@, HOne(XIndex(x), WeightOf(w)))]

NextPush == \E x \in PushValues, w \in PushWeights : PushSample(x, w)

SpecPush == InitPush /\ [][NextPush]_vars

\* ------------------------------------------------------------------------
\* Only pushes, of every kind, into the accumulator "out" created empty
\* ------------------------------------------------------------------------
NextFill ==
    \/ PushVal
    \/ PushVals
    \/ PushData
    \/ PushDatas

SpecFill == Init /\ [][NextFill]_vars

\* ------------------------------------------------------------------------
\* Every public operation that writes a weight, with arguments of either
\* sign: "out" created empty, the operands A, B and C as above
\* ------------------------------------------------------------------------
SignedScales == {R(0), R(2), R(-1)}
FillValues == {R(1), R(-1)}

\* the name of a call tells the sign of its scalar argument
Signed(op, v) == IF RGeq(v, R(0)) THEN op ELSE op \o "_neg"

SignedMulStep(a, s) == Assign1(Signed("mul", s), a, __mul__(acc[a], s), <<>>)
SignedIMulStep(s) == InPlace(Signed("imul", s), __imul__(acc["out"], s), <<>>)
FillStep(v) == InPlace(Signed("fill", v), Mutated(fill(acc["out"], v)), <<>>)

WeightPushVal  == \E x \in PushValues, w \in {None, Scalar(R(0)), Scalar(R(2))} : PushValStep(x, w)
WeightPushData == \E m \in {"A", "C"} : PushDataStep(m)
WeightIAdd == \E m \in {"B", "C"} : IAddStep(m)
WeightISub == \E m \in {"A", "B", "C"} : ISubStep(m)
WeightAdd  == \E a \in {"A", "out"}, b \in {"B", "C"} : AddStep(a, b)
WeightSub  == \E a \in {"A", "B", "out"}, b \in {"A", "B", "C", "out"} : SubStep(a, b)
WeightMul  == \E a \in {"A", "out"}, s \in SignedScales : SignedMulStep(a, s)
WeightIMul == \E s \in SignedScales : SignedIMulStep(s)
WeightFill == \E v \in FillValues : FillStep(v)

NextWeight ==
    \/ WeightPushVal
    \/ WeightPushData
    \/ WeightIAdd
    \/ WeightISub
    \/ WeightAdd
    \/ WeightSub
    \/ WeightMul
    \/ WeightIMul
    \/ WeightFill
    \/ Zero

SpecWeight == Init /\ [][NextWeight]_vars

\* ------------------------------------------------------------------------
\* A batch pushed in one call (into "out") and record by record (into "seq")
\* (test_central.py, test_StatsAccum_vals lines 50-58, test_StatsAccumVec_vals
\* lines 201-229, test_StatsAccum_stats lines 92-104)
\* ------------------------------------------------------------------------
MaxRec == 3

Pair == {"out", "seq"}

\* shapes of the batches of values and the axis the records lie along:
\* values of rank 0, 1 and 2, every axis, and a negative axis
VecCases ==
    {[shape |-> <<2>>, axis |-> 0],
     [shape |-> <<MaxRec>>, axis |-> 0],
     [shape |-> <<2, MaxRec>>, axis |-> 0],
     [shape |-> <<2, MaxRec>>, axis |-> 1],
     [shape |-> <<2, MaxRec>>, axis |-> -1],
     [shape |-> <<2, MaxRec, 2>>, axis |-> 0],
     [shape |-> <<2, MaxRec, 2>>, axis |-> 1],
     [shape |-> <<2, MaxRec, 2>>, axis |-> 2]}

\* two patterns of sample values, by flat position
DataAt(p, k) == R(IF p = 1 THEN (k * k) % 5 ELSE (3 * k + 1) % 4)

\* no weights, one weight per record (1-D along axis), one per value
WeightsFor(c, wk) ==
    CASE wk = "none" -> None
      [] wk = "axis" ->
            Arr(<<c.shape[normalize_axis_index(c.axis, Len(c.shape)) + 1]>>,
                [i \in 1..c.shape[normalize_axis_index(c.axis, Len(c.shape)) + 1] |-> R(i)])
      [] OTHER -> Arr(c.shape, [k \in 1..Prod(c.shape) |-> R(1 + (k % 3))])

ValsBatches ==
    {[kind |-> "vals",
      x    |-> Arr(c.shape, [k \in 1..Prod(c.shape) |-> DataAt(p, k)]),
      w    |-> WeightsFor(c, wk),
      axis |-> <<c.axis>>] : c \in VecCases, p \in {1, 2}, wk \in {"none", "axis", "full"}}

\* np.stack(bufs, axis): buffers of one shape, stacked along a new axis
StackAt(bufs, axis) ==
    LET shp == Take(bufs[1].shape, axis) \o <<Len(bufs)>> \o Drop(bufs[1].shape, axis)
        At(idx) == bufs[idx[axis + 1] + 1].flat[
                       Ravel(Take(idx, axis) \o Drop(idx, axis + 1), bufs[1].shape) + 1]
    IN  Arr(shp, [k \in 1..Prod(shp) |-> At(Unravel(k - 1, shp))])

\* the buffers of a batch: per value, the closed-form moments of some
\* samples (one of them of no samples)
Hists == <<<<1, 1, 2>>, <<1, 0, 2>>, <<0, 0, 0>>, <<2, 1, 0>>, <<0, 2, 1>>>>
RecBuf(vshape, i, p) ==
    Arr(vshape \o <<Mom + 1>>,
        Concat([v \in 1..Prod(vshape) |->
                   FromPartition(Hists[((p * i + v) % Len(Hists)) + 1], Mom).data.flat]))

DatasCases ==
    {[vshape |-> <<>>, n |-> 2, axis |-> 0],
     [vshape |-> <<>>, n |-> MaxRec, axis |-> 0],
     [vshape |-> <<2>>, n |-> MaxRec, axis |-> 0],
     [vshape |-> <<2>>, n |-> MaxRec, axis |-> 1]}

DatasBatches ==
    {[kind |-> "datas",
      x    |-> StackAt([i \in 1..c.n |-> RecBuf(c.vshape, i, p)], c.axis),
      w    |-> None,
      axis |-> <<c.axis>>] : c \in DatasCases, p \in {1, 2}}

\* the value shape of the accumulator a batch is for
BatchValShape(b) ==
    IF b.kind = "vals" THEN _shape_reduce(b.x.shape, b.axis[1])
    ELSE _shape_reduce(Take(b.x.shape, Len(b.x.shape) - 1), b.axis[1])

\* the accumulator before the batch: empty, or holding one sample per value
StartAcc(vshape, st) ==
    IF st = "empty" THEN zeros("CentralMoments", Mom, vshape)
    ELSE push_val(zeros("CentralMoments", Mom, vshape),
                  Arr(vshape, [k \in 1..Prod(vshape) |-> R(k % 3)]), None).self

InitVec ==
    /\ \E b \in ValsBatches \cup DatasBatches, st \in {"empty", "loaded"} :
          /\ batch = b
          /\ acc = [n \in Pair |-> StartAcc(BatchValShape(b), st)]
    /\ seen = [n \in Pair |-> <<>>]
    /\ last = Call("init", "", "", FALSE)
    /\ nops = 0
    /\ prev = acc["out"]
    /\ pos = 0
    /\ owner = [n \in Pair |-> n]

\* the number of records of the batch
NRec == ShapeAt(batch.x, batch.axis)

\* record i of the batch, and its weight
RecordAt(x, i, axis) == take(x, i, normalize_axis_index(axis[1], Len(x.shape)))
WeightAt(w, i, axis) ==
    IF IsNone(w) THEN None
    ELSE IF Len(w.shape) = 1 THEN Scalar(w.flat[i + 1])
    ELSE RecordAt(w, i, axis)

\* the batch, in one call on "out"
BatchCall(op, r) ==
    /\ nops = 0
    /\ nops' = 1
    /\ last' = Call(op, "out", "", r.raised)
    /\ prev' = acc["out"]
    /\ acc' = [acc EXCEPT !["out"] = r.self]
    /\ UNCHANGED <<seen, batch, pos, owner>>

\* the next record of the batch, in one call on "seq"; a call that raises
\* ends the sequence
RecordCall(r) ==
    /\ pos < NRec
    /\ pos' = IF r.raised THEN NRec + 1 ELSE pos + 1
    /\ acc' = [acc EXCEPT !["seq"] = r.self]
    /\ UNCHANGED <<seen, last, nops, prev, batch, owner>>

BatchPushVals ==
    /\ batch.kind = "vals"
    /\ BatchCall("push_vals", push_vals(acc["out"], batch.x, batch.w, batch.axis))

SeqPushVal ==
    /\ batch.kind = "vals"
    /\ RecordCall(push_val(acc["seq"], RecordAt(batch.x, pos, batch.axis),
                           WeightAt(batch.w, pos, batch.axis)))

BatchPushDatas ==
    /\ batch.kind = "datas"
    /\ BatchCall("push_datas", push_datas(acc["out"], batch.x, batch.axis))

SeqPushData ==
    /\ batch.kind = "datas"
    /\ RecordCall(push_data(acc["seq"], RecordAt(batch.x, pos, batch.axis)))

NextVec ==
    \/ BatchPushVals
    \/ SeqPushVal
    \/ BatchPushDatas
    \/ SeqPushData

SpecVec == InitVec /\ [][NextVec]_vars

\* ------------------------------------------------------------------------
\* Workers: each pushes its share of the samples into an accumulator of its
\* own, one sample at a time and in any order, the steps of the workers
\* interleaved; when all are done "out" takes the workers' buffers with
\* push_data, one at a time in any order, or with one push_datas of the
\* buffers stacked in any order
\* ------------------------------------------------------------------------
MaxSamples == 3

Workers == {"w1", "w2", "w3"}

\* sample j has the value Xs[Kind(j)]; the samples of the second value
\* carry the weight 2, the others are pushed without weight
Kind(j) == ((j - 1) % Len(Xs)) + 1
KindWeight(k) == IF k = 2 THEN Scalar(R(2)) ELSE None

\* per worker and value of Xs, the weight of the samples assigned to it
ShareOf(to, w) ==
    [k \in 1..Len(Xs) |->
        WeightOf(KindWeight(k)) * Cardinality({j \in 1..MaxSamples : to[j] = w /\ Kind(j) = k})]

InitWorkers ==
    /\ \E to \in [1..MaxSamples -> Workers] :
          batch = [share |-> [w \in Workers |-> ShareOf(to, w)]]
    /\ acc = [n \in Workers \cup {"out"} |-> zeros("CentralMoments", Mom, <<>>)]
    /\ seen = [n \in Workers \cup {"out"} |-> HZero]
    /\ last = Call("init", "", "", FALSE)
    /\ nops = 0
    /\ prev = acc["out"]
    /\ pos = 0
    /\ owner = [n \in Workers \cup {"out"} |-> n]

WorkersDone == \A w \in Workers : seen[w] = batch.share[w]

\* pos tells which workers' buffers "out" has taken: bit i for worker i
WorkerBit(w) == CASE w = "w1" -> 1 [] w = "w2" -> 2 [] w = "w3" -> 4
Taken(w) == (pos \div WorkerBit(w)) % 2 = 1
AllTaken == WorkerBit("w1") + WorkerBit("w2") + WorkerBit("w3")

\* worker w pushes one of its samples of value Xs[k]
WorkerPush(w, k) ==
    /\ seen[w][k] < batch.share[w][k]
    /\ \E r \in {push_val(acc[w], Scalar(R(Xs[k])), KindWeight(k))} :
          /\ Record("push_val", w, "", r.raised)
          /\ acc' = [acc EXCEPT ![w] = r.self]
          /\ seen' = [seen EXCEPT ![w] = HAdd(@, HOne(k, WeightOf(KindWeight(k))))]

\* out.push_data(w.data)
TakeOne(w) ==
    /\ WorkersDone
    /\ ~Taken(w)
    /\ \E r \in {push_data(acc["out"], acc[w].data)} :
          /\ nops' = nops + 1
          /\ last' = Call("push_data", "out", w, r.raised)
          /\ prev' = acc["out"]
          /\ acc' = [acc EXCEPT !["out"] = r.self]
          /\ seen' = [seen EXCEPT !["out"] = HAdd(@, seen[w])]
          /\ pos' = pos + WorkerBit(w)
          /\ UNCHANGED <<batch, owner>>

\* out.push_datas(np.array([p1.data, p2.data, p3.data]), axis=0) for the
\* workers in the order p
TakeAll(p) ==
    /\ WorkersDone
    /\ pos = 0
    /\ \E r \in {push_datas(acc["out"], StackAt([i \in 1..3 |-> acc[p[i]].data], 0), <<0>>)} :
          /\ nops' = nops + 1
          /\ last' = Call("push_datas", "out", "", r.raised)
          /\ prev' = acc["out"]
          /\ acc' = [acc EXCEPT !["out"] = r.self]
          /\ seen' = [seen EXCEPT !["out"] = HAdd(HAdd(seen["w1"], seen["w2"]), seen["w3"])]
          /\ pos' = AllTaken
          /\ UNCHANGED <<batch, owner>>

WorkerOrders == {p \in [1..3 -> Workers] : \A w \in Workers : \E i \in 1..3 : p[i] = w}

WorkerStep == \E w \in Workers, k \in 1..Len(Xs) : WorkerPush(w, k)
MergeOne   == \E w \in Workers : TakeOne(w)
MergeAll   == \E p \in WorkerOrders : TakeAll(p)

NextWorkers ==
    \/ WorkerStep
    \/ MergeOne
    \/ MergeAll

SpecWorkers == InitWorkers /\ [][NextWorkers]_vars

\* ------------------------------------------------------------------------
\* The manipulations, each called once on an accumulator "src"; the result
\* is bound to "out"
\* ------------------------------------------------------------------------
\* scalar accumulators, and accumulators over MaxRec (or 2, or MaxRec + 2)
\* records along one axis of values of rank 1 and 2
ManipSources ==
    {FromPartition(h, Mom) : h \in {<<1, 1, 2>>, <<0, 0, 0>>}}
    \cup {Accum("CentralMoments", 1, b.x) : b \in DatasBatches}
    \cup {Accum("CentralMoments", 1,
                StackAt([i \in 1..(MaxRec + 2) |-> RecBuf(<<>>, i, 1)], 0))}

Names == {"src", "out"}

InitManip ==
    /\ \E a \in ManipSources : acc = [n \in Names |-> a]
    /\ seen = [n \in Names |-> <<>>]
    /\ last = Call("init", "", "", FALSE)
    /\ nops = 0
    /\ prev = acc["out"]
    /\ batch = NoBatch
    /\ pos = 0
    /\ owner = [n \in Names |-> n]

\* the arguments of a call
Args(axis, block_size, freq, indices) ==
    [axis |-> axis, block_size |-> block_size, freq |-> freq, indices |-> indices]

\* axis: None, the axes of values of rank up to 2, a negative one, and one
\* that no value shape of this model has
ManipAxes == {<<>>, <<0>>, <<1>>, <<-1>>, <<2>>}

\* the number of records along axis (2 where there is no such axis)
RecCount(self, axis) ==
    IF _wrap_axis(self, axis) = -1 THEN 2
    ELSE val_shape(self)[_wrap_axis(self, axis) + 1]

BlockSizes(n) == {<<>>, <<0>>, <<1>>, <<2>>, <<n>>, <<n + 1>>}

\* frequency tables: all ones, mixed (with zeros), and one too wide
FreqTables(n) ==
    {Arr(<<2, n>>, [k \in 1..(2 * n) |-> 1]),
     Arr(<<2, n>>, [k \in 1..(2 * n) |-> k % 3]),
     Arr(<<1, n + 1>>, [k \in 1..(n + 1) |-> 1])}

\* index tables: every record once, records repeated, and one out of bounds
IndexTables(n) ==
    {Arr(<<2, n>>, [k \in 1..(2 * n) |-> (k - 1) % n]),
     Arr(<<2, n>>, [k \in 1..(2 * n) |-> (2 * (k - 1)) % n]),
     Arr(<<1, n>>, [k \in 1..n |-> n])}

ManipCall(op, r, args) ==
    /\ nops = 0
    /\ nops' = 1
    /\ last' = [op |-> op, a |-> "src", b |-> "", raised |-> r.raised,
                exc |-> IF r.raised THEN r.exc ELSE ""]
    /\ prev' = acc["out"]
    /\ acc' = [acc EXCEPT !["src"] = r.self,
                          !["out"] = IF r.raised THEN @ ELSE r.ret]
    /\ batch' = args
    /\ UNCHANGED <<seen, pos, owner>>

Reduce ==
    \E axis \in ManipAxes :
        ManipCall("reduce", reduce(acc["src"], axis), Args(axis, <<>>, None, None))

Block ==
    \E axis \in ManipAxes :
        \E bs \in BlockSizes(RecCount(acc["src"], axis)) :
            ManipCall("block", block(acc["src"], bs, axis), Args(axis, bs, None, None))

Resample ==
    \E axis \in ManipAxes :
        \E idx \in IndexTables(RecCount(acc["src"], axis)) :
            ManipCall("resample", resample(acc["src"], idx, axis),
                      Args(axis, <<>>, None, idx))

\* resample_and_reduce(freq=...) and resample_and_reduce(indices=...); the
\* table that nrep=... draws at random is one of the index tables
ResampleAndReduce ==
    \E axis \in ManipAxes :
        \/ \E f \in FreqTables(RecCount(acc["src"], axis)) :
              ManipCall("resample_and_reduce",
                        resample_and_reduce(acc["src"], f, None, axis),
                        Args(axis, <<>>, f, None))
        \/ \E idx \in IndexTables(RecCount(acc["src"], axis)) :
              ManipCall("resample_and_reduce",
                        resample_and_reduce(acc["src"], None, idx, axis),
                        Args(axis, <<>>, None, idx))

NextManip ==
    \/ Reduce
    \/ Block
    \/ Resample
    \/ ResampleAndReduce

SpecManip == InitManip /\ [][NextManip]_vars

\* ------------------------------------------------------------------------
\* resample_and_reduce, one replicate at a time: each replicate is computed
\* by itself, in any order, and written into its slot of the output
\* ------------------------------------------------------------------------
\* frequency tables of 2 and 3 replicates, with zeros and repeats; no two
\* rows of a table are the same
RepTables(n) ==
    {Arr(<<nrep, n>>,
         [k \in 1..(nrep * n) |->
             (((k - 1) \div n) + ((k - 1) % n) * (((k - 1) \div n) + 1)) % 3]) :
        nrep \in {2, 3}}

\* the output as resample_data allocates it: nrep empty buffers
InitReps ==
    /\ \E a \in {m \in ManipSources : _is_vector(m)} :
          \E axis \in {x \in ManipAxes : _wrap_axis(a, x) # -1} :
              \E f \in RepTables(RecCount(a, axis)) :
                  /\ batch = Args(axis, <<>>, f, None)
                  /\ acc = [n \in Names |->
                               IF n = "src" THEN a
                               ELSE zeros_shape(a.cls,
                                                <<f.shape[1]>>
                                                    \o _shape_reduce(a.data.shape,
                                                                     _wrap_axis(a, axis)),
                                                a.mom_ndim)]
    /\ seen = [n \in Names |-> <<>>]
    /\ last = Call("init", "", "", FALSE)
    /\ nops = 0
    /\ prev = acc["out"]
    /\ pos = 0
    /\ owner = [n \in Names |-> n]

\* pos tells which replicates are written: bit r for replicate r
Bit(r) == 2 ^ r
Written(p, r) == (p \div Bit(r)) % 2 = 1

\* out[r, ...] = buffer
WriteSlot(out, r, flat) ==
    [out EXCEPT !.data.flat =
        [k \in 1..Len(out.data.flat) |->
            IF (k - 1) \div Len(flat) = r THEN flat[((k - 1) % Len(flat)) + 1]
            ELSE out.data.flat[k]]]

ComputeRep(r) ==
    /\ ~Written(pos, r)
    /\ pos' = pos + Bit(r)
    /\ nops' = nops + 1
    /\ last' = Call("resample_rep", "src", "", FALSE)
    /\ prev' = acc["out"]
    /\ acc' = [acc EXCEPT !["out"] =
                   WriteSlot(@, r, resample_rep(acc["src"], batch.freq,
                                                _wrap_axis(acc["src"], batch.axis), r))]
    /\ UNCHANGED <<seen, batch, owner>>

NextReps == \E r \in 0..2 : r < batch.freq.shape[1] /\ ComputeRep(r)

SpecReps == InitReps /\ [][NextReps]_vars

\* ------------------------------------------------------------------------
\* One call on a pair of objects "a" and "b" of any kind; what the call
\* returns is bound to "out"
\* ------------------------------------------------------------------------
\* objects of both classes, single-variable and co-moment, over values of
\* rank 0 and 1; some differ in one attribute only: the class (1 and 2), the
\* mom_ndim (4 and 5), the shape (1 and 3)
PairObjs ==
    {Accum("CentralMoments", 1, RecBuf(<<>>, 2, 1)),
     Accum("xCentralMoments", 1, RecBuf(<<>>, 2, 1)),
     Accum("CentralMoments", 1, RecBuf(<<2>>, 1, 1)),
     Accum("CentralMoments", 1, Arr(<<2, 2>>, <<R(2), R(1), R(3), R(0)>>)),
     Accum("CentralMoments", 2, Arr(<<2, 2>>, <<R(2), R(1), R(3), Frac(1, 2)>>)),
     Accum("CentralMoments", 2,
           Arr(<<2, 2, 3>>, [k \in 1..12 |-> Frac((k * k) % 7, 1 + (k % 2))])),
     zeros("CentralMoments", Mom, <<>>),
     Accum("CentralMoments", 1, RecBuf(<<>>, 3, 1)),
     Accum("CentralMoments", 1, RecBuf(<<>>, 4, 1))}

\* the co-moment merge kernel is not modelled: no pair of co-moment objects
\* that the operators would merge
Mergeable(a, b) == a.cls = b.cls /\ a.mom_ndim = b.mom_ndim /\ shape(a) = shape(b)
PairCases ==
    {ab \in PairObjs \X PairObjs : ~(ab[1].mom_ndim = 2 /\ Mergeable(ab[1], ab[2]))}

PairNames == {"a", "b", "out"}

InitPair ==
    /\ \E ab \in PairCases :
          acc = [n \in PairNames |-> IF n = "b" THEN ab[2] ELSE ab[1]]
    /\ seen = [n \in PairNames |-> <<>>]
    /\ last = Call("init", "", "", FALSE)
    /\ nops = 0
    /\ prev = acc["out"]
    /\ batch = NoBatch
    /\ pos = 0
    /\ owner = [n \in PairNames |-> n]

\* out = a (op) b, and a (op)= b
PairCall(op, r) ==
    /\ nops = 0
    /\ nops' = 1
    /\ last' = Call(op, "a", "b", r.raised)
    /\ prev' = acc["out"]
    /\ acc' = [acc EXCEPT !["a"] = r.self, !["b"] = r.other,
                          !["out"] = IF r.raised THEN @ ELSE r.ret]
    /\ UNCHANGED <<seen, batch, pos, owner>>

\* out = a (op) s, a (op)= s, out = a.method()
PairCall1(op, r, s) ==
    /\ nops = 0
    /\ nops' = 1
    /\ last' = Call(op, "a", "", r.raised)
    /\ prev' = acc["out"]
    /\ acc' = [acc EXCEPT !["a"] = r.self,
                          !["out"] = IF r.raised THEN @ ELSE r.ret]
    /\ batch' = [scale |-> s]
    /\ UNCHANGED <<seen, pos, owner>>

\* float(scale)
PairScales == {R(0), R(2), R(-1), Frac(1, 2)}

PairAdd  == PairCall("add", __add__(acc["a"], acc["b"]))
PairIAdd == PairCall("iadd", __iadd__(acc["a"], acc["b"]))
PairSub  == PairCall("sub", __sub__(acc["a"], acc["b"]))
PairISub == PairCall("isub", __isub__(acc["a"], acc["b"]))
PairMul  == \E s \in PairScales : PairCall1("mul", __mul__(acc["a"], s), s)
PairIMul == \E s \in PairScales : PairCall1("imul", __imul__(acc["a"], s), s)
PairCmom == PairCall1("cmom", cmom(acc["a"]), R(1))
PairToRaw == PairCall1("to_raw", to_raw(acc["a"]), R(1))
\* in place on a: a.fill(v), a.zero(), a.push_data(b.data), and
\* a.push_val(x) with one sample of 1 for every value (single-variable
\* accumulators: the co-moment kernels are not modelled)
PairFill == \E v \in FillValues : PairCall1("fill", Mutated(fill(acc["a"], v)), v)
PairZero == PairCall1("zero", Mutated(zero(acc["a"])), R(0))
PairPushData ==
    /\ acc["a"].mom_ndim = 1
    /\ PairCall1("push_data", push_data(acc["a"], acc["b"].data), R(1))
PairPushVal ==
    /\ acc["a"].mom_ndim = 1
    /\ PairCall1("push_val",
                 push_val(acc["a"],
                          Arr(val_shape(acc["a"]),
                              [k \in 1..Prod(val_shape(acc["a"])) |-> R(1)]),
                          None),
                 R(1))

\* out = from_raw(a.to_raw(), mom_ndim=a.mom_ndim)
PairFromRaw ==
    PairCall1("from_raw",
              Returned(acc["a"],
                       from_raw(acc["a"].cls, to_raw(acc["a"]).ret, acc["a"].mom_ndim)),
              R(1))

NextPair ==
    \/ PairAdd
    \/ PairIAdd
    \/ PairSub
    \/ PairISub
    \/ PairMul
    \/ PairIMul
    \/ PairCmom
    \/ PairToRaw
    \/ PairFromRaw
    \/ PairFill
    \/ PairZero
    \/ PairPushData
    \/ PairPushVal

SpecPair == InitPair /\ [][NextPair]_vars

\* ------------------------------------------------------------------------
\* _check_mom and _choose_mom_ndim, each called once on arguments drawn at
\* the start (batch); the outcome is bound to "out"
\* ------------------------------------------------------------------------
MomArgs ==
    {[moments |-> m, mom_ndim |-> n, shape |-> s] :
        m \in {PyNone, PyInt(2), PyTuple(<<2>>), PyTuple(<<2, 3>>), PyList(<<2, 3>>)},
        n \in {PyNone, PyInt(1), PyInt(2), PyInt(3)},
        s \in {PyNone, PyTuple(<<3>>), PyTuple(<<4, 3>>), PyTuple(<<2, 3, 3>>)}}

InitMom ==
    /\ batch \in MomArgs
    /\ acc = [n \in {"out"} |-> Returns(PyNone)]
    /\ seen = [n \in {"out"} |-> <<>>]
    /\ last = Call("init", "", "", FALSE)
    /\ nops = 0
    /\ prev = acc["out"]
    /\ pos = 0
    /\ owner = [n \in {"out"} |-> n]

MomCall(op, r) ==
    /\ nops = 0
    /\ nops' = 1
    /\ last' = Call(op, "", "", r.raised)
    /\ prev' = acc["out"]
    /\ acc' = [acc EXCEPT !["out"] = r]
    /\ UNCHANGED <<seen, batch, pos, owner>>

CheckMom == MomCall("_check_mom", _check_mom(batch.moments, batch.mom_ndim, batch.shape))
ChooseMomNdim == MomCall("_choose_mom_ndim", _choose_mom_ndim(batch.moments, batch.mom_ndim))

NextMom ==
    \/ CheckMom
    \/ ChooseMomNdim

SpecMom == InitMom /\ [][NextMom]_vars

\* ------------------------------------------------------------------------
\* DerivativeKernel.__init__ (src/thermoextrap/xtrapy/xpan_GPR.py 55-98)
\* kernel_expr is given by tuple(kernel_expr.free_symbols), a sequence of
\* symbol names in the order the set happens to yield them; kernel_params
\* by its items in insertion order, <<key, value>> with value = val[0]
\* ------------------------------------------------------------------------
casefold(name) ==
    CASE name = "X1" -> "x1"
      [] name = "X2" -> "x2"
      [] OTHER -> name

\* list.sort() sorts in place and returns None
list_sort(l) == PyNone

NoParamsMessage ==
    "Provided kernel expression only takes inputs x1 and x2, no optimizable parameters!"
MismatchMessage == "Symbol names in kernel_expr must match keys in kernel_params!"

Range(f) == {f[i] : i \in DOMAIN f}

DerivativeKernel__init__(expr_syms, obs_dims, kernel_params, active_dims) ==
    LET IsInput(n) == casefold(n) = "x1" \/ casefold(n) = "x2"
        IsParam(n) == ~IsInput(n)
        x_syms     == SelectSeq(expr_syms, IsInput)
        param_syms == SelectSeq(expr_syms, IsParam)
        keys       == [i \in 1..Len(kernel_params) |-> kernel_params[i][1]]
        Built(params, done) ==
            [active_dims |-> <<>>, x_syms |-> x_syms, param_syms |-> param_syms,
             params |-> params,
             obs_dims |-> IF done THEN <<obs_dims>> ELSE <<>>]
        NoParams == [n \in {} |-> 0]
    IN  IF Len(param_syms) = 0
        THEN [raised |-> TRUE, exc |-> "ValueError", msg |-> NoParamsMessage,
              self |-> Built(NoParams, FALSE)]
        ELSE IF kernel_params # <<>>
        THEN IF list_sort(param_syms) # list_sort(keys)
             THEN [raised |-> TRUE, exc |-> "ValueError", msg |-> MismatchMessage,
                   self |-> Built(NoParams, FALSE)]
             ELSE [raised |-> FALSE, exc |-> "", msg |-> "",
                   self |-> Built([k \in Range(keys) |->
                                     (CHOOSE i \in 1..Len(kernel_params) :
                                         kernel_params[i][1] = k
                                      ) + 1],
                                  TRUE)]
        ELSE [raised |-> FALSE, exc |-> "", msg |-> "",
              self |-> Built([n \in Range(param_syms) |-> 1], TRUE)]

SymbolNames == {"x1", "X2", "var", "l"}
ParamKeys == {"var", "l", "q"}

\* the orderings of the subsets of S
Orderings(S) ==
    UNION {{q \in [1..n -> S] : \A i, j \in 1..n : q[i] = q[j] => i = j} :
              n \in 0..Cardinality(S)}

\* kernel_params with value i + 1 under its i-th key
ParamDicts == {[i \in 1..Len(q) |-> <<q[i], i + 1>>] : q \in Orderings(ParamKeys)}

KernelArgs ==
    {[kernel_expr |-> e, obs_dims |-> 1, kernel_params |-> p, active_dims |-> a] :
        e \in Orderings(SymbolNames), p \in ParamDicts, a \in {<<>>, <<0>>}}

InitKernel ==
    /\ batch \in KernelArgs
    /\ acc = [n \in {"out"} |-> None]
    /\ seen = [n \in {"out"} |-> <<>>]
    /\ last = [op |-> "init", a |-> "", b |-> "", raised |-> FALSE, exc |-> "", msg |-> ""]
    /\ nops = 0
    /\ prev = acc["out"]
    /\ pos = 0
    /\ owner = [n \in {"out"} |-> n]

NewDerivativeKernel ==
    /\ nops = 0
    /\ nops' = 1
    /\ \E r \in {DerivativeKernel__init__(batch.kernel_expr, batch.obs_dims,
                                           batch.kernel_params, batch.active_dims)} :
          /\ last' = [op |-> "DerivativeKernel", a |-> "", b |-> "",
                      raised |-> r.raised, exc |-> r.exc, msg |-> r.msg]
          /\ acc' = [acc EXCEPT !["out"] = r.self]
    /\ prev' = acc["out"]
    /\ UNCHANGED <<seen, batch, pos, owner>>

NextKernel == NewDerivativeKernel

SpecKernel == InitKernel /\ [][NextKernel]_vars

\* ------------------------------------------------------------------------
\* One call of _axis_expand_broadcast on drawn arguments
\* ------------------------------------------------------------------------
ExpandInputs ==
    {Arr(<<2>>, <<R(5), R(7)>>), Arr(<<3>>, <<R(5), R(7), R(11)>>),
     Arr(<<2, 3>>, <<R(1), R(2), R(3), R(4), R(5), R(6)>>)}

ExpandShapes == {<<3>>, <<2, 3>>, <<3, 2>>, <<2, 2>>, <<2, 3, 2>>, <<3, 2, 2>>}

ExpandAxes == {<<>>, <<0>>, <<1>>, <<2>>, <<-1>>, <<-2>>}

ExpandArgs ==
    {[x |-> x, shape |-> s, axis |-> a, expand |-> e, broadcast |-> b, roll |-> r] :
        x \in ExpandInputs, s \in ExpandShapes, a \in ExpandAxes,
        e \in BOOLEAN, b \in BOOLEAN, r \in BOOLEAN}

InitExpand ==
    /\ batch \in ExpandArgs
    /\ acc = [n \in {"out"} |-> None]
    /\ seen = [n \in {"out"} |-> <<>>]
    /\ last = [op |-> "init", a |-> "", b |-> "", raised |-> FALSE, exc |-> ""]
    /\ nops = 0
    /\ prev = acc["out"]
    /\ pos = 0
    /\ owner = [n \in {"out"} |-> n]

AxisExpandBroadcast ==
    /\ nops = 0
    /\ nops' = 1
    /\ \E r \in {_axis_expand_broadcast(batch.x, batch.shape, batch.axis,
                                         batch.expand, batch.broadcast, batch.roll)} :
          /\ last' = [op |-> "_axis_expand_broadcast", a |-> "", b |-> "",
                      raised |-> IsRaised(r),
                      exc |-> _axis_expand_broadcast_exc(batch.x, batch.shape, batch.axis,
                                  batch.expand, batch.broadcast, batch.roll)]
          /\ acc' = [acc EXCEPT !["out"] = r]
    /\ prev' = acc["out"]
    /\ UNCHANGED <<seen, batch, pos, owner>>

NextExpand == AxisExpandBroadcast

SpecExpand == InitExpand /\ [][NextExpand]_vars

\* ------------------------------------------------------------------------
\* Objects and the buffers they view: the names "a", "b" and "out" are bound
\* to objects; owner says which buffer each object's data is a view of.
\* What is written through one object is seen through every object that
\* views the same buffer.
\* ------------------------------------------------------------------------
MaxAlias == 3

AliasNames == {"a", "b", "out"}

InitAlias ==
    /\ acc = [n \in AliasNames |->
                 CASE n = "a" -> FromPartition(<<2, 1, 0>>, Mom)
                   [] n = "b" -> FromPartition(<<1, 0, 2>>, Mom)
                   [] OTHER -> zeros("CentralMoments", Mom, <<>>)]
    /\ owner = [n \in AliasNames |-> CASE n = "a" -> 1 [] n = "b" -> 2 [] OTHER -> 3]
    /\ seen = [n \in AliasNames |-> <<>>]
    /\ last = Call("init", "", "", FALSE)
    /\ nops = 0
    /\ prev = acc["out"]
    /\ batch = NoBatch
    /\ pos = 0

\* the identity of the next buffer allocated
Fresh == nops + 4

AliasStep(op, x, y, raised) ==
    /\ nops < MaxAlias
    /\ nops' = nops + 1
    /\ last' = Call(op, x, y, raised)
    /\ prev' = acc["out"]
    /\ UNCHANGED <<seen, batch, pos>>

\* out = <call>: the call wrote obj into buffer w and returned an object
\* that views it
BindNew(op, x, y, r, w) ==
    /\ AliasStep(op, x, y, r.raised)
    /\ IF r.raised THEN UNCHANGED <<acc, owner>>
       ELSE /\ owner' = [owner EXCEPT !["out"] = w]
            /\ acc' = [n \in AliasNames |->
                          IF n = "out" \/ owner[n] = w THEN r.ret ELSE acc[n]]

\* a call on x that writes obj into the buffer of x
WriteThrough(op, x, y, r) ==
    /\ AliasStep(op, x, y, r.raised)
    /\ acc' = [n \in AliasNames |->
                  IF ~r.raised /\ owner[n] = owner[x] THEN r.self ELSE acc[n]]
    /\ UNCHANGED owner

AliasCopy(x) ==
    BindNew("copy", x, "", Ok(acc[x], copy(acc[x])), copy_buffer(owner[x], Fresh))

AliasAdd(x, y) ==
    BindNew("add", x, y, __add__(acc[x], acc[y]), add_buffer(owner[x], owner[y], Fresh))

AliasSub(x, y) ==
    BindNew("sub", x, y, __sub__(acc[x], acc[y]), sub_buffer(owner[x], owner[y], Fresh))

AliasMul(x) ==
    BindNew("mul", x, "", __mul__(acc[x], R(2)), mul_buffer(owner[x], Fresh))

\* out = x: the name is bound to the same object
AliasBind(x) ==
    BindNew("bind", x, "", Ok(acc[x], acc[x]), owner[x])

AliasIAdd(x, y) == WriteThrough("iadd", x, y, __iadd__(acc[x], acc[y]))
AliasIMul(x)    == WriteThrough("imul", x, "", __imul__(acc[x], R(2)))
AliasZero(x)    == WriteThrough("zero", x, "", Mutated(zero(acc[x])))

NextAlias ==
    \/ \E x \in {"a", "out"} : AliasCopy(x)
    \/ \E x \in {"a", "out"} : AliasAdd(x, "b")
    \/ \E x \in {"a", "out"} : AliasSub(x, "b")
    \/ \E x \in {"a", "out"} : AliasMul(x)
    \/ AliasBind("a")
    \/ \E x \in {"a", "out"} : AliasIAdd(x, "b")
    \/ \E x \in {"a", "out"} : AliasIMul(x)
    \/ AliasZero("out")

SpecAlias == InitAlias /\ [][NextAlias]_vars

\* ------------------------------------------------------------------------
\* Properties of the operators (specification Spec)
\* ------------------------------------------------------------------------
\* a call has just been made
Called(op) == nops' = nops + 1 /\ last'.op = op

\* the scalar weight of an accumulator without value dimensions
W0(self) == self.data.flat[1]

SubAfterAdd ==
    /\ last.op = "add" /\ ~last.raised
    /\ last.a # "out" /\ last.b # "out"
    /\ Called("sub") /\ last'.a = "out" /\ last'.b = last.b
\* the form of the tests, (a + b) - a: out = a + b followed by out = out - a
SubFirstAfterAdd ==
    /\ last.op = "add" /\ ~last.raised
    /\ last.a # "out" /\ last.b # "out"
    /\ Called("sub") /\ last'.a = "out" /\ last'.b = last.a
ISubAfterIAdd ==
    /\ last.op = "iadd" /\ ~last.raised
    /\ last.b # "out"
    /\ Called("isub") /\ last'.b = last.b

C6_ZeroWeightIsIdentity ==
    [][(/\ nops' = nops + 1
        /\ last'.op \in {"add", "iadd", "push_data"}
        /\ ~last'.raised)
          => /\ (W0(acc[last'.b]) = R(0) /\ W0(acc[last'.a]) # R(0))
                  => acc'["out"].data = acc[last'.a].data
             /\ (W0(acc[last'.a]) = R(0) /\ W0(acc[last'.b]) # R(0))
                  => acc'["out"].data = acc[last'.b].data]_vars

\* zeros += A for a non-empty A
C6_Witness ==
    /\ nops = 1
    /\ last = Call("iadd", "out", "A", FALSE)
    /\ W0(prev) = R(0)
    /\ W0(acc["A"]) # R(0)
    /\ acc["out"].data = acc["A"].data

\* C8: a mutating call (push_val, push_vals, push_data, push_datas, +=, -=)
\* that raises leaves the buffers of the receiver and of its operand as they
\* were
C8_NoPartialSuccess ==
    [][(/\ nops' = nops + 1
        /\ last'.op \in {"push_val", "push_vals", "push_data", "push_datas",
                         "iadd", "isub"}
        /\ last'.raised)
          => acc' = acc]_vars

\* a push_val that raised on a receiver that already holds samples
C8_Witness ==
    /\ nops = 2
    /\ last = Call("push_val", "out", "", TRUE)
    /\ W0(acc["out"]) # R(0)
    /\ acc["out"].data.flat[3] # R(0)

\* C9: a - b and a -= b where a.weight >= b.weight does not hold raise, and
\* leave a and b (and every other accumulator) unchanged
C9_SubRaisesUnchanged ==
    [][(/\ nops' = nops + 1
        /\ last'.op \in {"sub", "isub"}
        /\ ~WeightGeq(acc[last'.a], acc[last'.b]))
          => (last'.raised /\ acc' = acc)]_vars

\* out -= A raised for operands of the same kind with out.weight < A.weight
C9_Witness ==
    /\ last = Call("isub", "out", "A", TRUE)
    /\ _check_other(acc["out"], acc["A"])
    /\ W0(acc["out"]) # R(0)
    /\ ~WeightGeq(acc["out"], acc["A"])

\* C10 as stated: a - b of operands of the same kind whose weights violate
\* a.weight >= b.weight completes and yields a result
C10_Original ==
    [][(/\ Called("sub")
        /\ _check_other(acc[last'.a], acc[last'.b])
        /\ ~WeightGeq(acc[last'.a], acc[last'.b]))
          => ~last'.raised]_vars

\* C10 amended: a - b of operands of the same kind whose weights violate
\* a.weight >= b.weight raises and yields no result: the name the result
\* would be bound to keeps its value
C10_SubYieldsNoResult ==
    [][(/\ Called("sub")
        /\ _check_other(acc[last'.a], acc[last'.b])
        /\ ~WeightGeq(acc[last'.a], acc[last'.b]))
          => (last'.raised /\ acc'["out"] = acc["out"])]_vars

\* B - A raised, with B non-empty and lighter than A, and out kept its value
C10_Witness ==
    /\ nops = 2
    /\ last = Call("sub", "B", "A", TRUE)
    /\ W0(acc["B"]) # R(0)
    /\ ~WeightGeq(acc["B"], acc["A"])
    /\ acc["out"] = prev
    /\ W0(acc["out"]) # R(0)

C2_PushValsIsSequential ==
    (batch.kind = "vals" /\ nops = 1 /\ pos >= NRec)
        => /\ ~last.raised
           /\ pos = NRec
           /\ acc["out"] = acc["seq"]

\* values of rank 2 reduced along the middle axis, one weight per record,
\* into an accumulator that was not empty
C2_Witness ==
    /\ batch.kind = "vals"
    /\ nops = 1
    /\ pos = NRec
    /\ Len(batch.x.shape) = 3
    /\ batch.axis = <<1>>
    /\ ~IsNone(batch.w)
    /\ Len(batch.w.shape) = 1
    /\ prev.data.flat[1] # R(0)
    /\ acc["out"] # prev

\* C7: once the batch of buffers has been merged into "out" by one push_datas
\* call and into "seq" by one push_data call per buffer, in the order of the
\* buffers along the axis, neither having raised, the two accumulators, which
\* started equal, are equal
C7_PushDatasIsSequential ==
    (batch.kind = "datas" /\ nops = 1 /\ pos >= NRec)
        => /\ ~last.raised
           /\ pos = NRec
           /\ acc["out"] = acc["seq"]

\* buffers of rank-1 values stacked along axis 1, merged into an accumulator
\* that was not empty
C7_Witness ==
    /\ batch.kind = "datas"
    /\ nops = 1
    /\ pos = NRec
    /\ batch.axis = <<1>>
    /\ Len(batch.x.shape) = 3
    /\ prev.data.flat[1] # R(0)
    /\ acc["out"] # prev

\* ------------------------------------------------------------------------
\* Properties of the manipulations (specification SpecManip)
\* ------------------------------------------------------------------------
ManipOps == {"reduce", "block", "resample", "resample_and_reduce"}

\* C11: reduce, block, resample and resample_and_reduce called on an
\* accumulator without value dimensions raise the ValueError of
\* _raise_if_scalar, whatever the arguments (an axis that does not exist, a
\* block size of 0, a table of the wrong width would each raise something
\* else later), and no object changes
C11_ScalarRaisesFirst ==
    [][(nops' = nops + 1 /\ last'.op \in ManipOps /\ val_shape(acc["src"]) = <<>>)
          => (/\ last'.raised
              /\ last'.exc = "ValueError"
              /\ acc' = acc)]_vars

\* block on a scalar accumulator with a block size of 0 and an axis out of
\* range has raised
C11_Witness ==
    /\ nops = 1
    /\ last.op = "block"
    /\ val_shape(acc["src"]) = <<>>
    /\ batch.block_size = <<0>>
    /\ batch.axis = <<2>>
    /\ last.raised

\* ------------------------------------------------------------------------
\* Properties of one call on a pair of objects (specification SpecPair)
\* ------------------------------------------------------------------------
Differ(a, b) == a.cls # b.cls \/ a.mom_ndim # b.mom_ndim \/ a.data.shape # b.data.shape

\* C12: a + b, a += b, a - b and a -= b on operands that differ in type, in
\* mom_ndim or in total shape raise, and a, b and the name the result would
\* be bound to are unchanged
C12_MismatchRaisesUnchanged ==
    [][(nops' = nops + 1 /\ last'.op \in {"add", "iadd", "sub", "isub"}
        /\ Differ(acc["a"], acc["b"]))
          => (last'.raised /\ acc' = acc)]_vars

\* a += b on operands of two classes with the same mom_ndim and shape
C12_Witness ==
    /\ nops = 1
    /\ last.op = "iadd"
    /\ last.raised
    /\ acc["a"].cls # acc["b"].cls
    /\ acc["a"].mom_ndim = acc["b"].mom_ndim
    /\ acc["a"].data.shape = acc["b"].data.shape

\* ------------------------------------------------------------------------
\* Properties of the moment specification (specification SpecMom)
\* ------------------------------------------------------------------------
\* the cases in which the claim says _check_mom raises
MissingMom == batch.moments.t = "none"
              /\ (batch.shape.t = "none" \/ batch.mom_ndim.t = "none")

\* the mom_ndim the result is measured against: the one given, else 1 for
\* an int and the length for a sequence
WantNdim == IF batch.mom_ndim.t # "none" THEN batch.mom_ndim.v
            ELSE IF batch.moments.t = "int" THEN 1
            ELSE Len(batch.moments.v)

\* the sequence given (mom, or else shape) cannot have mom_ndim entries
WrongLength ==
    IF batch.moments.t = "none" THEN Len(batch.shape.v) < batch.mom_ndim.v
    ELSE batch.moments.t # "int" /\ Len(batch.moments.v) # WantNdim

\* what both statements of the claim share: the missing specification
\* raises ValueError in _check_mom and in _choose_mom_ndim
MissingRaises ==
    /\ (last.op = "_check_mom" /\ MissingMom)
          => (acc["out"].raised /\ acc["out"].exc = "ValueError")
    /\ (last.op = "_choose_mom_ndim"
        /\ batch.moments.t = "none" /\ batch.mom_ndim.t = "none")
          => (acc["out"].raised /\ acc["out"].exc = "ValueError")

\* _check_mom returned a tuple of mom_ndim entries, an int repeated
ReturnsMom ==
    /\ ~acc["out"].raised
    /\ acc["out"].ret.t = "tuple"
    /\ Len(acc["out"].ret.v) = WantNdim
    /\ batch.moments.t = "int"
          => acc["out"].ret.v = [i \in 1..WantNdim |-> batch.moments.v]

\* C13 as stated: in every other case _check_mom returns such a tuple
C13_Original ==
    /\ MissingRaises
    /\ (last.op = "_check_mom" /\ ~MissingMom) => ReturnsMom

\* C13: a missing specification raises ValueError (_check_mom: moments None
\* with no shape or no mom_ndim; _choose_mom_ndim: mom and mom_ndim None);
\* otherwise _check_mom returns a tuple of mom_ndim entries (an int repeated,
\* mom_ndim 1 by default), unless the sequence it is given cannot have
\* mom_ndim entries (a mom of another length, a shape of fewer dimensions):
\* then its assertion fails
C13_CheckMomResolves ==
    /\ MissingRaises
    /\ (last.op = "_check_mom" /\ ~MissingMom /\ WrongLength)
          => (acc["out"].raised /\ acc["out"].exc = "AssertionError")
    /\ (last.op = "_check_mom" /\ ~MissingMom /\ ~WrongLength) => ReturnsMom

\* an int mom with mom_ndim 2 has been repeated
C13_Witness ==
    /\ last.op = "_check_mom"
    /\ batch.moments = PyInt(2)
    /\ batch.mom_ndim = PyInt(2)
    /\ acc["out"] = Returns(PyTuple(<<2, 2>>))

\* ------------------------------------------------------------------------
\* Properties of the objects and their buffers (specification SpecAlias)
\* ------------------------------------------------------------------------
\* C14: a call of copy, a + b, a - b or a * s that returns leaves the data
\* seen through every existing object unchanged and returns an object over
\* a buffer that no existing object views; a call that writes in place
\* (a += b, a *= s, zero) changes only what is seen through the objects that
\* view the buffer of a, so never what is seen through such a result or,
\* from a result, through its operands; and a += b leaves a's buffer the one
\* it was and b unchanged
C14_NewObjectsOwnTheirBuffer ==
    [][/\ (nops' = nops + 1 /\ last'.op \in {"copy", "add", "sub", "mul"} /\ ~last'.raised)
            => /\ \A n \in AliasNames \ {"out"} : acc'[n] = acc[n]
               /\ \A n \in AliasNames : owner'["out"] # owner[n]
       /\ (nops' = nops + 1 /\ last'.op \in {"iadd", "imul", "zero"})
            => /\ owner' = owner
               /\ \A n \in AliasNames : owner[n] # owner[last'.a] => acc'[n] = acc[n]
       /\ (nops' = nops + 1 /\ last'.op = "iadd" /\ ~last'.raised)
            => /\ acc'["b"] = acc["b"]
               /\ acc'[last'.a] = __iadd__(acc[last'.a], acc["b"]).self]_vars

\* out = a * 2, then out *= 2: out has changed again and a has not
C14_Witness ==
    /\ nops = 2
    /\ last.op = "imul"
    /\ last.a = "out"
    /\ owner["out"] # owner["a"]
    /\ acc["out"] # prev
    /\ acc["out"].data.flat[1] = RMul(R(4), acc["a"].data.flat[1])
    /\ acc["a"] = FromPartition(<<2, 1, 0>>, Mom)

\* the slots of a buffer whose moment indices are all 0, and those with one
\* moment index 1 and the others 0 (flat positions, 1-based)
MomIndex(self, k) == Drop(Unravel(k - 1, self.data.shape),
                          Len(self.data.shape) - self.mom_ndim)
IsWeightSlot(self, k) == \A i \in 1..self.mom_ndim : MomIndex(self, k)[i] = 0
\* by the offset in the block of moments of one value: [1] for one
\* variable, [0, 1] and [1, 0] for two
IsMeanSlot(self, k) ==
    IF self.mom_ndim = 1 THEN (k - 1) % self.data.shape[Len(self.data.shape)] = 1
    ELSE (k - 1) % (self.data.shape[Len(self.data.shape)]
                    * self.data.shape[Len(self.data.shape) - 1])
            \in {1, self.data.shape[Len(self.data.shape)]}

\* new is old with every weight slot multiplied by s and nothing else changed
Rescaled(old, new, s) ==
    /\ new.cls = old.cls
    /\ new.mom_ndim = old.mom_ndim
    /\ new.data.shape = old.data.shape
    /\ \A k \in 1..Len(old.data.flat) :
          new.data.flat[k] = IF IsWeightSlot(old, k) THEN RMul(old.data.flat[k], s)
                             ELSE old.data.flat[k]

\* C15: a * s returns a with every weight slot (all moment indices 0)
\* multiplied by s and every other slot as it is in a, and leaves a as it
\* is; a *= s does the same to a itself; for one and two variables and for
\* values of rank 0 and 1
C15_MulScalesWeightOnly ==
    [][/\ (nops' = nops + 1 /\ last'.op = "mul")
            => (~last'.raised /\ Rescaled(acc["a"], acc'["out"], batch'.scale)
                /\ acc'["a"] = acc["a"])
       /\ (nops' = nops + 1 /\ last'.op = "imul")
            => (~last'.raised /\ Rescaled(acc["a"], acc'["a"], batch'.scale))]_vars

\* a co-moment accumulator over two values, halved in place
C15_Witness ==
    /\ nops = 1
    /\ last.op = "imul"
    /\ batch.scale = Frac(1, 2)
    /\ acc["a"].mom_ndim = 2
    /\ acc["a"].data.shape = <<2, 2, 3>>
    /\ acc["a"] # acc["b"]

\* C16: cmom() returns an array of the shape of the buffer in which every
\* weight slot is 1, every mean slot (for two variables [1,0] and [0,1]) is
\* 0 and every other slot is the buffer's; the accumulator is unchanged
C16_CmomIsStrictView ==
    [][(nops' = nops + 1 /\ last'.op = "cmom")
          => /\ ~last'.raised
             /\ acc'["a"] = acc["a"]
             /\ acc'["out"].shape = acc["a"].data.shape
             /\ \A k \in 1..Len(acc["a"].data.flat) :
                   acc'["out"].flat[k] =
                       IF IsWeightSlot(acc["a"], k) THEN R(1)
                       ELSE IF IsMeanSlot(acc["a"], k) THEN R(0)
                       ELSE acc["a"].data.flat[k]]_vars

\* cmom() of a co-moment accumulator over two values whose cross moment
\* [1,1] is not 0
C16_Witness ==
    /\ nops = 1
    /\ last.op = "cmom"
    /\ acc["a"].mom_ndim = 2
    /\ acc["a"].data.shape = <<2, 2, 3>>
    /\ acc["out"].flat[5] # R(0)
    /\ acc["out"] # acc["a"].data

\* the slots of a raw-moment array follow the docstring of to_raw: the
\* weight, then <x> (for two variables <x0>, <x1>), the mean of the buffer
RawKeepsWeightAndMean ==
    (nops = 1 /\ last.op = "to_raw")
        => /\ ~last.raised
           /\ acc["out"].shape = acc["a"].data.shape
           /\ \A k \in 1..Len(acc["a"].data.flat) :
                 (IsWeightSlot(acc["a"], k) \/ IsMeanSlot(acc["a"], k))
                     => acc["out"].flat[k] = acc["a"].data.flat[k]

\* C17: converting the buffer to raw moments and the raw moments back to
\* central moments gives the buffer again, weight slot included, for one
\* variable and for two
C17_RoundTrip ==
    (nops = 1 /\ last.op = "from_raw")
        => /\ ~last.raised
           /\ acc["out"].data = acc["a"].data

\* the recurrence itself inverts: solved with the mean that the raw moments
\* hold in their mean slot (raw[1]; raw[1,0] and raw[0,1]), it gives every
\* row, every block of the buffer again
RoundTripGivenMeanSlot ==
    (nops = 1 /\ last.op = "to_raw")
        => LET n1 == acc["a"].data.shape[Len(acc["a"].data.shape)]
               nb == IF acc["a"].mom_ndim = 1 THEN n1
                     ELSE n1 * acc["a"].data.shape[Len(acc["a"].data.shape) - 1]
           IN  \A i \in 1..(Len(acc["a"].data.flat) \div nb) :
                  IF acc["a"].mom_ndim = 1
                  THEN solve_central(Rows(acc["out"].flat, nb)[i],
                                     Rows(acc["out"].flat, nb)[i][2], nb)
                          = Rows(acc["a"].data.flat, nb)[i]
                  ELSE solve_cocentral(Rows(acc["out"].flat, nb)[i], n1,
                                       Rows(acc["out"].flat, nb)[i][n1 + 1],
                                       Rows(acc["out"].flat, nb)[i][2], nb)
                          = Rows(acc["a"].data.flat, nb)[i]

\* a frequency table of nrep rows in which every record counts once
AllOnes(freq, n) ==
    /\ ~IsNone(freq)
    /\ Len(freq.shape) = 2
    /\ freq.shape[2] = n
    /\ \A k \in 1..Len(freq.flat) : freq.flat[k] = 1

\* C18: resample_and_reduce with a frequency table of ones returns an
\* accumulator that holds, for every replicate, the buffer that
\* reduce(axis) returns; the source is unchanged
C18_OnesIsReduce ==
    (/\ nops = 1
     /\ last.op = "resample_and_reduce"
     /\ _is_vector(acc["src"])
     /\ _wrap_axis(acc["src"], batch.axis) # -1
     /\ AllOnes(batch.freq, RecCount(acc["src"], batch.axis)))
        => /\ ~last.raised
           /\ acc["out"].data.shape
                 = <<batch.freq.shape[1]>> \o reduce(acc["src"], batch.axis).ret.data.shape
           /\ \A r \in 0..(batch.freq.shape[1] - 1) :
                 take(acc["out"].data, r, 0) = reduce(acc["src"], batch.axis).ret.data

\* two replicates of three records of two values each, resampled along the
\* second value axis; the merge is not one of the records
C18_Witness ==
    /\ nops = 1
    /\ last.op = "resample_and_reduce"
    /\ ~last.raised
    /\ batch.axis = <<1>>
    /\ val_shape(acc["src"]) = <<2, MaxRec>>
    /\ AllOnes(batch.freq, MaxRec)
    /\ acc["out"].data.shape = <<2, 2, Mom + 1>>
    /\ \A c \in 0..(MaxRec - 1) :
          take(acc["out"].data, 0, 0) # take(acc["src"].data, c, 1)

\* C19: block with block_size the number of records along axis, or with
\* block_size None, returns an accumulator of one block, and that block is
\* the buffer that reduce(axis) returns: the merge of all records along
\* axis; None and the number of records give the same result
C19_FullBlockIsReduce ==
    (/\ nops = 1
     /\ last.op = "block"
     /\ _is_vector(acc["src"])
     /\ _wrap_axis(acc["src"], batch.axis) # -1
     /\ batch.block_size \in {<<>>, <<RecCount(acc["src"], batch.axis)>>})
        => /\ ~last.raised
           /\ acc["out"].cls = acc["src"].cls
           /\ acc["out"].mom_ndim = acc["src"].mom_ndim
           /\ acc["out"].data.shape
                 = <<1>> \o reduce(acc["src"], batch.axis).ret.data.shape
           /\ take(acc["out"].data, 0, 0) = reduce(acc["src"], batch.axis).ret.data
           /\ acc["out"]
                 = block(acc["src"], <<RecCount(acc["src"], batch.axis)>>, batch.axis).ret

\* block_size None on MaxRec records of two values each, along the second
\* value axis; the block is not one of the records
C19_Witness ==
    /\ nops = 1
    /\ last.op = "block"
    /\ ~last.raised
    /\ batch.block_size = <<>>
    /\ batch.axis = <<1>>
    /\ val_shape(acc["src"]) = <<2, MaxRec>>
    /\ acc["out"].data.shape = <<1, 2, Mom + 1>>
    /\ \A c \in 0..(MaxRec - 1) :
          take(acc["out"].data, 0, 0) # take(acc["src"].data, c, 1)

\* the records lo..hi along axis merged in order into self
RECURSIVE MergeRange(_, _, _, _, _)
MergeRange(self, data, axis, lo, hi) ==
    IF lo > hi THEN self
    ELSE MergeRange(push_data(self, take(data, lo, axis)).self, data, axis, lo + 1, hi)

\* C20: block(block_size, axis) on n records returns n \div block_size
\* blocks along the first axis; block i is the merge, in order, of the
\* records i * block_size .. (i + 1) * block_size - 1 along axis, so the
\* last n % block_size records are in no block; the source is unchanged
C20_BlocksAreConsecutiveMerges ==
    (/\ nops = 1
     /\ last.op = "block"
     /\ _is_vector(acc["src"])
     /\ _wrap_axis(acc["src"], batch.axis) # -1
     /\ batch.block_size # <<>>
     /\ batch.block_size # <<0>>)
        => LET ax  == _wrap_axis(acc["src"], batch.axis)
               n   == RecCount(acc["src"], batch.axis)
               bs  == batch.block_size[1]
               rec == _shape_reduce(shape(acc["src"]), ax)
           IN  /\ ~last.raised
               /\ acc["src"] = prev
               /\ acc["out"].data.shape = <<n \div bs>> \o rec
               /\ \A i \in 0..((n \div bs) - 1) :
                     take(acc["out"].data, i, 0)
                         = MergeRange(zeros_shape(acc["src"].cls, rec, acc["src"].mom_ndim),
                                      acc["src"].data, ax, i * bs, (i + 1) * bs - 1).data

\* MaxRec + 2 records in blocks of 2: two blocks, the last record in none
C20_Witness ==
    /\ nops = 1
    /\ last.op = "block"
    /\ ~last.raised
    /\ batch.block_size = <<2>>
    /\ val_shape(acc["src"]) = <<MaxRec + 2>>
    /\ MaxRec % 2 = 1
    /\ acc["out"].data.shape = <<(MaxRec + 2) \div 2, Mom + 1>>
    /\ take(acc["out"].data, 1, 0) # take(acc["src"].data, 2, 0)
    /\ take(acc["out"].data, 1, 0) # take(acc["src"].data, 3, 0)

\* C21: after any sequence of push_val, push_vals, push_data and
\* push_datas on an accumulator created empty, weight() is the sum of the
\* weights of everything that was pushed, a push_val without weight
\* counting 1 (a call that raised pushed nothing)
C21_WeightIsSumOfPushed ==
    Tracked(seen["out"])
        => weight(acc["out"]) = Scalar(HistWeight(seen["out"]))

\* two unweighted push_val of different values: weight() is 2
C21_Witness ==
    /\ nops = 2
    /\ last.op = "push_val"
    /\ ~last.raised
    /\ seen["out"] = <<1, 0, 1>>
    /\ weight(acc["out"]) = Scalar(R(2))

\* every weight slot of every accumulator is >= 0 (NaN is not)
NonNegWeights ==
    \A n \in Operands :
        \A k \in _weight_index(acc[n]) : RGeq(acc[n].data.flat[k], R(0))

\* C22 as stated: in every state reachable through the public operations,
\* whatever the scale and the fill value, every weight slot is >= 0
C22_Original == NonNegWeights

\* C22: a public operation (push with a weight >= 0, merge, +, -, +=, -=,
\* zero, and *, *= and fill with a scalar >= 0) on accumulators whose
\* weight slots are all >= 0 leaves every weight slot >= 0
C22_NonNegativeWeightIsKept ==
    [][(/\ nops' = nops + 1
        /\ last'.op \notin {"mul_neg", "imul_neg", "fill_neg"}
        /\ NonNegWeights)
          => NonNegWeights']_vars

\* after out = A + B, out -= A has taken weight away and left some
C22_Witness ==
    /\ nops = 2
    /\ last.op = "isub"
    /\ last.b = "A"
    /\ ~last.raised
    /\ NonNegWeights
    /\ weight(acc["out"]) = weight(acc["B"])
    /\ weight(acc["out"]) # Scalar(R(0))

\* the layout of one accumulator: mom_ndim is 1 or 2, the buffer shape is
\* val_shape + mom_shape, mom_shape is mom + 1, and the flattened shape is
\* mom_shape for a scalar accumulator, (prod val_shape,) + mom_shape
\* otherwise
LayoutOf(self) ==
    /\ self.mom_ndim \in {1, 2}
    /\ Len(shape(self)) >= self.mom_ndim
    /\ shape(self) = val_shape(self) \o mom_shape(self)
    /\ Len(mom(self)) = self.mom_ndim
    /\ mom_shape(self) = [i \in 1..self.mom_ndim |-> mom(self)[i] + 1]
    /\ Len(self.data.flat) = Prod(shape(self))
    /\ shape_flat(self) = IF val_ndim(self) = 0 THEN mom_shape(self)
                          ELSE <<Prod(val_shape(self))>> \o mom_shape(self)

SameLayout(old, new) ==
    /\ new.cls = old.cls
    /\ new.mom_ndim = old.mom_ndim
    /\ shape(new) = shape(old)

\* the operations that return an accumulator: the receiver itself (in
\* place) or a new one
InPlaceOps == {"iadd", "isub", "imul", "fill", "zero", "push_data", "push_val"}
NewObjectOps == {"add", "sub", "mul", "from_raw"}

\* C23: every public operation, whether it raises or not, leaves its
\* operands with the mom_ndim (1 or 2) and the buffer shape they had, and
\* the layout val_shape + mom_shape, mom_shape = mom + 1 and the flattened
\* shape hold of them; the accumulator an operator returns has the layout
\* of its receiver
C23_LayoutIsKept ==
    [][(nops' = nops + 1)
          => /\ SameLayout(acc["a"], acc'["a"])
             /\ acc'["b"] = acc["b"]
             /\ LayoutOf(acc'["a"])
             /\ (~last'.raised /\ last'.op \in InPlaceOps \cup NewObjectOps)
                   => (SameLayout(acc["a"], acc'["out"]) /\ LayoutOf(acc'["out"]))]_vars

\* a co-moment accumulator over two values after fill(-1): every slot
\* written, mom_ndim 2 and the shape (2, 2, 3) as before
C23_Witness ==
    /\ nops = 1
    /\ last.op = "fill"
    /\ acc["a"].mom_ndim = 2
    /\ shape(acc["a"]) = <<2, 2, 3>>
    /\ val_shape(acc["a"]) = <<2>>
    /\ shape_flat(acc["a"]) = <<2, 2, 3>>
    /\ \A k \in 1..12 : acc["a"].data.flat[k] = R(-1)

\* one accumulator into which the samples 1..j are pushed in order
RECURSIVE PushAll(_)
PushAll(j) ==
    IF j = 0 THEN zeros("CentralMoments", Mom, <<>>)
    ELSE push_val(PushAll(j - 1), Scalar(R(Xs[Kind(j)])), KindWeight(Kind(j))).self

OtherRow(freq, r) ==
    Arr(freq.shape,
        [k \in 1..Len(freq.flat) |->
            IF (k - 1) \div freq.shape[2] = r THEN (freq.flat[k] + 1) % 3
            ELSE freq.flat[k]])

\* what resample_and_reduce(freq=f, axis=axis) returns for the source
WholeOutput(f) == resample_and_reduce(acc["src"], f, None, batch.axis).ret

C26_ResampleGathers ==
    (/\ nops = 1
     /\ last.op = "resample"
     /\ _is_vector(acc["src"])
     /\ _wrap_axis(acc["src"], batch.axis) # -1
     /\ \A k \in 1..Len(batch.indices.flat) :
           /\ batch.indices.flat[k] >= 0
           /\ batch.indices.flat[k] < RecCount(acc["src"], batch.axis))
        => /\ ~last.raised
           /\ acc["src"] = prev
           /\ acc["out"].cls = acc["src"].cls
           /\ acc["out"].mom_ndim = acc["src"].mom_ndim
           /\ acc["out"].data.shape
                 = batch.indices.shape
                     \o _shape_reduce(acc["src"].data.shape,
                                      _wrap_axis(acc["src"], batch.axis))
           /\ \A r \in 0..(batch.indices.shape[1] - 1) :
                 \A c \in 0..(batch.indices.shape[2] - 1) :
                     take(take(acc["out"].data, r, 0), c, 0)
                         = take(acc["src"].data,
                                batch.indices.flat[r * batch.indices.shape[2] + c + 1],
                                _wrap_axis(acc["src"], batch.axis))

\* records of two values each gathered along the second value axis, out
\* of order, the first record taken by both replicates, and the records
\* not all equal
C26_Witness ==
    /\ nops = 1
    /\ last.op = "resample"
    /\ ~last.raised
    /\ batch.axis = <<1>>
    /\ val_shape(acc["src"]) = <<2, MaxRec>>
    /\ acc["out"].data.shape = <<2, MaxRec, 2, Mom + 1>>
    /\ batch.indices.flat[1] = batch.indices.flat[MaxRec + 1]
    /\ batch.indices.flat[2] = 2
    /\ take(take(acc["out"].data, 0, 0), 0, 0) = take(take(acc["out"].data, 1, 0), 0, 0)
    /\ \E c \in 1..(MaxRec - 1) :
          take(take(acc["out"].data, 0, 0), 0, 0) # take(take(acc["out"].data, 0, 0), c, 0)


\* ------------------------------------------------------------------------
\* C27: _axis_expand_broadcast with expand, broadcast and roll on, given a
\* rank-1 x with len(x) = shape[axis] and a target shape of higher rank,
\* returns an array of shape (shape[axis],) + the other target dimensions
\* in order, whose entry [i, ...] is x[i]; with expand on, a rank-1 x
\* against a shape of another rank and axis None raises ValueError.
\* ------------------------------------------------------------------------
RankMismatched1D == Len(batch.x.shape) = 1 /\ Len(batch.shape) # 1

ExpandCase ==
    /\ nops = 1
    /\ batch.expand /\ batch.broadcast /\ batch.roll
    /\ RankMismatched1D
    /\ batch.axis # <<>>
    /\ AxisInRange(batch.axis[1], Len(batch.shape))
    /\ batch.x.shape[1] = batch.shape[normalize_axis_index(batch.axis[1], Len(batch.shape)) + 1]

C27_ExpandBroadcastRoll ==
    /\ ExpandCase =>
          LET a   == normalize_axis_index(batch.axis[1], Len(batch.shape))
              shp == <<batch.shape[a + 1]>> \o Take(batch.shape, a) \o Drop(batch.shape, a + 1)
          IN  /\ ~last.raised
              /\ acc["out"].shape = shp
              /\ \A k \in 1..Prod(shp) :
                    acc["out"].flat[k] = batch.x.flat[Unravel(k - 1, shp)[1] + 1]
    /\ (nops = 1 /\ batch.expand /\ RankMismatched1D /\ batch.axis = <<>>) =>
          (last.raised /\ last.exc = "ValueError")

\* a length-3 input expanded along the middle axis of a rank-3 target
C27_Witness ==
    /\ ExpandCase
    /\ batch.shape = <<2, 3, 2>> /\ batch.axis = <<1>>
    /\ acc["out"].shape = <<3, 2, 2>>
    /\ acc["out"].flat = <<R(5), R(5), R(5), R(5), R(7), R(7), R(7), R(7),
                           R(11), R(11), R(11), R(11)>>


\* ------------------------------------------------------------------------
\* C28: reduce, block, resample and resample_and_reduce normalize axis
\* against the value rank only: an axis in [-val_ndim, val_ndim) acts as
\* axis mod val_ndim, None acts as 0, and any other axis (one that would
\* address a moment axis included) is rejected with an error that leaves
\* the source and everything else as it was.
\* ------------------------------------------------------------------------
NormalizedAxis(self, axis) ==
    IF axis = <<>> THEN <<0>>
    ELSE <<(axis[1] + val_ndim(self)) % val_ndim(self)>>

\* the call of the last step again, with another axis
ManipAgain(self, axis) ==
    CASE last.op = "reduce" -> reduce(self, axis)
      [] last.op = "block" -> block(self, batch.block_size, axis)
      [] last.op = "resample" -> resample(self, batch.indices, axis)
      [] last.op = "resample_and_reduce" ->
            resample_and_reduce(self, batch.freq, batch.indices, axis)

C28_AxisAgainstValueRank ==
    (nops = 1 /\ _is_vector(acc["src"])) =>
        IF batch.axis # <<>> /\ ~AxisInRange(batch.axis[1], val_ndim(acc["src"]))
        THEN /\ last.raised /\ last.exc = "AxisError"
             /\ acc["src"] = prev /\ acc["out"] = prev
        ELSE \E r \in {ManipAgain(acc["src"], NormalizedAxis(acc["src"], batch.axis))} :
                /\ last.raised = r.raised
                /\ acc["src"] = prev
                /\ acc["out"] = IF r.raised THEN prev ELSE r.ret

\* axis -1 on values of rank 2 reduces along value axis 1, not along 0
C28_Witness ==
    /\ nops = 1 /\ last.op = "reduce" /\ ~last.raised
    /\ batch.axis = <<-1>>
    /\ val_ndim(acc["src"]) = 2
    /\ acc["out"] = reduce(acc["src"], <<1>>).ret
    /\ acc["out"] # reduce(acc["src"], <<0>>).ret

\* an axis equal to the value rank, the first moment axis, is rejected
C28_MomentAxisRejected ==
    /\ nops = 1 /\ last.op = "block" /\ last.exc = "AxisError"
    /\ val_ndim(acc["src"]) = 1 /\ batch.axis = <<1>>


\* ------------------------------------------------------------------------
\* C29: for operands that satisfy the precondition, the buffer returned by
\* a - b equals the buffer a -= b leaves in a, and neither path changes
\* the buffer of b.
\* ------------------------------------------------------------------------
SubPathsAgree(a, b, sub, isub) ==
    /\ ~sub.raised /\ ~isub.raised
    /\ sub.ret.data = isub.self.data
    /\ sub.other = b /\ isub.other = b

C29_SubtractionPathsAgree ==
    [][(nops' = 1 /\ last'.op \in {"sub", "isub"} /\ ~last'.raised) =>
          /\ SubPathsAgree(acc["a"], acc["b"],
                           __sub__(acc["a"], acc["b"]), __isub__(acc["a"], acc["b"]))
          /\ acc'["b"] = acc["b"]
          /\ last'.op = "sub" =>
                (acc'["a"] = acc["a"]
                    /\ acc'["out"].data = __isub__(acc["a"], acc["b"]).self.data)
          /\ last'.op = "isub" =>
                acc'["a"].data = __sub__(acc["a"], acc["b"]).ret.data]_vars

\* a - b with b non-empty and lighter than a: the result is what a -= b
\* would leave in a, and differs from a and from b
C29_Witness ==
    /\ nops = 1 /\ last = Call("sub", "a", "b", FALSE)
    /\ weight(acc["b"]).flat[1] # R(0)
    /\ weight(acc["a"]).flat[1] # weight(acc["b"]).flat[1]
    /\ acc["out"].data = __isub__(acc["a"], acc["b"]).self.data
    /\ acc["out"].data # acc["a"].data
    /\ acc["out"].data # acc["b"].data
    /\ weight(acc["out"]).flat[1] # R(0)


\* ------------------------------------------------------------------------
\* C30: DerivativeKernel(kernel_expr, obs_dims, kernel_params) with a
\* non-empty kernel_params whose key set differs from the set of names of
\* the parameter symbols of kernel_expr (its free symbols other than
\* x1/x2) raises ValueError 'Symbol names in kernel_expr must match keys
\* in kernel_params!' and sets no parameter attribute; a kernel_expr
\* without parameter symbols raises ValueError as well.
\* ------------------------------------------------------------------------
ParamSymbolNames == {n \in Range(batch.kernel_expr) : casefold(n) \notin {"x1", "x2"}}
KernelParamKeys == {batch.kernel_params[i][1] : i \in 1..Len(batch.kernel_params)}

C30_MismatchedKeysRaise ==
    nops = 1 =>
        /\ (ParamSymbolNames # {} /\ batch.kernel_params # <<>>
                /\ KernelParamKeys # ParamSymbolNames) =>
              /\ last.raised /\ last.exc = "ValueError" /\ last.msg = MismatchMessage
              /\ DOMAIN acc["out"].params = {}
        /\ ParamSymbolNames = {} => (last.raised /\ last.exc = "ValueError")

\* what the constructor does: the comparison of the two sort() results never
\* differs, so a non-empty kernel_params is taken as it is and its keys,
\* matching or not, become the parameter attributes
C30_KeysAreNotCompared ==
    (nops = 1 /\ ParamSymbolNames # {} /\ batch.kernel_params # <<>>) =>
        (~last.raised /\ DOMAIN acc["out"].params = KernelParamKeys)

\* a kernel_expr without parameter symbols is rejected, and without
\* kernel_params every parameter symbol becomes an attribute set to 1
C30_NoParameterSymbolsRaise ==
    nops = 1 =>
        /\ ParamSymbolNames = {} =>
              (last.raised /\ last.exc = "ValueError" /\ last.msg = NoParamsMessage
                  /\ DOMAIN acc["out"].params = {})
        /\ (ParamSymbolNames # {} /\ batch.kernel_params = <<>>) =>
              (~last.raised /\ acc["out"].params = [n \in ParamSymbolNames |-> 1])

\* keys {q} against parameter symbols {var, l}: constructed, q is set
C30_MismatchAccepted ==
    /\ nops = 1 /\ ~last.raised
    /\ ParamSymbolNames = {"var", "l"}
    /\ KernelParamKeys = {"q"}
    /\ DOMAIN acc["out"].params = {"q"}

====
